---- MODULE Spec2Model ----
(***************************************************************************)
(* Omnipool-subpools pallet (pallets/omnipool-subpools/src/lib.rs): the    *)
(* cross-pool trade-resolution engine, subpool creation and migration, and *)
(* position conversion, as a state machine over the pallet's storage, the  *)
(* Omnipool and Stableswap storage it drives, and the token ledger.        *)
(*                                                                         *)
(* Every dispatchable is an operator from (storage, arguments) to a record *)
(* [err, st, handler]: the error it returns ("Ok" on success), the storage *)
(* as written up to the point of return, and the routine that handled it.  *)
(* Dispatch applies the storage layer every call runs in.                  *)
(*                                                                         *)
(* The numeric results of hydra_dx_math (stableswap share/withdraw math,   *)
(* Omnipool trade math) are inputs of the engine: each call receives them   *)
(* in a record m drawn from small sets, an Option being <<>> (None) or     *)
(* <<v>> (Some(v)).                                                        *)
(***************************************************************************)
EXTENDS Integers, Sequences, FiniteSets, TLC

(* ------------------------------ bounds --------------------------------- *)
\* largest amount a caller passes and a math routine returns
MaxAmount == 2
\* the hub-reserve delta of a trade
HubDelta == 1
\* the fee a withdrawal retains when it retains one
Fee == 1
\* reserve, hub reserve and shares of every Omnipool asset at genesis
InitReserve == 2
\* balance of every tradable asset the caller holds at genesis
InitBalance == 2
\* positions the hub pool ever issues, the genesis position included
MaxPositions == 2

(* ------------------------------ universe ------------------------------- *)
HubAssetId == "LRNA"
NativeAssets == {"a", "b", "c", "d"}
ShareAssets == {"s1", "s2"}
\* "x" is a registered token that was never added to the Omnipool
Assets == {HubAssetId, "x"} \cup NativeAssets \cup ShareAssets
ALICE == "ALICE"
OmnipoolAccount == "OMNI"
pool_account(pool_id) == "pool_" \o pool_id
Accounts == {ALICE, OmnipoolAccount} \cup {pool_account(p) : p \in Assets}
SELL == "SELL"
BUY == "BUY"
ADD_LIQUIDITY == "ADD_LIQUIDITY"
REMOVE_LIQUIDITY == "REMOVE_LIQUIDITY"
AllFlags == {SELL, BUY, ADD_LIQUIDITY, REMOVE_LIQUIDITY}
PositionIds == 1..MaxPositions

Amounts == 1..MaxAmount
Option(S) == {<<>>} \cup {<<v>> : v \in S}
IsSome(o) == o # <<>>
Unwrap(o) == o[1]

VARIABLES
    omniAssets,      \* pallet_omnipool Assets: asset id -> asset state
    hubTradable,     \* pallet_omnipool HubAssetTradability
    positions,       \* pallet_omnipool Positions: position id -> position
    nextPositionId,  \* pallet_omnipool NextPositionId
    pools,           \* pallet_stableswap Pools + AssetTradability
    bal,             \* ledger: account -> asset -> free balance
    issuance,        \* ledger: asset -> total issuance
    migratedAssets,  \* MigratedAssets: asset id -> (pool id, AssetDetail)
    subpools,        \* Subpools: set of pool ids
    last,            \* the call dispatched last and its outcome
    phase,           \* how far the behaviour has come, see the actions
    blockNumber,     \* frame_system block number
    stablePool,      \* pallet_stableswap on its own: the pool, its reserves and shares
    lastStable,      \* the stableswap call made last and its outcome
    scheduleOwnership,   \* pallet_dca ScheduleOwnership: schedule id -> owner
    suspended,           \* pallet_dca Suspended: set of schedule ids
    scheduleIdsPerBlock, \* pallet_dca ScheduleIdsPerBlock: block -> list of schedule ids
    lastDca,             \* the DCA call made last and its outcome
    rateConfig,          \* pallet_xcm_rate_limiter Config: DeferDuration, CurrencyIdConvert, RateLimitFor
    accumulatedDeferredAmounts, \* AccumulatedDeferredAmounts: location -> amount, last_updated
    lastRate             \* the rate limiter call made last and its outcome

store == <<omniAssets, hubTradable, positions, nextPositionId, pools, bal, issuance,
          migratedAssets, subpools>>
subpoolsVars == <<omniAssets, hubTradable, positions, nextPositionId, pools, bal, issuance,
                 migratedAssets, subpools, last, phase>>
stableswapVars == <<stablePool, lastStable>>
dcaVars == <<scheduleOwnership, suspended, scheduleIdsPerBlock, lastDca>>
rateLimiterVars == <<rateConfig, accumulatedDeferredAmounts, lastRate>>
vars == <<subpoolsVars, blockNumber, stableswapVars, dcaVars, rateLimiterVars>>

\* the persisted state as one value
Storage ==
    [omniAssets |-> omniAssets, hubTradable |-> hubTradable, positions |-> positions,
     nextPositionId |-> nextPositionId, pools |-> pools, bal |-> bal, issuance |-> issuance,
     migratedAssets |-> migratedAssets, subpools |-> subpools]

(* ------------------------------ results -------------------------------- *)
Ok(st) == [err |-> "Ok", st |-> st]
Err(e, st) == [err |-> e, st |-> st]
\* the ? operator: the next step runs only when the previous one returned Ok
Then(r, F(_)) == CHOOSE y \in {IF x.err = "Ok" THEN F(x.st) ELSE x : x \in {r}} : TRUE
Remove(f, k) == [x \in (DOMAIN f) \ {k} |-> f[x]]
Insert(f, k, v) == [x \in (DOMAIN f) \cup {k} |-> IF x = k THEN v ELSE f[x]]

(* ------------------------------ ledger --------------------------------- *)
free_balance(st, asset, who) == st.bal[who][asset]
total_issuance(st, asset) == st.issuance[asset]

transfer(st, asset, from, to, amount) ==
    IF st.bal[from][asset] < amount THEN Err("tokens.BalanceTooLow", st)
    ELSE IF from = to THEN Ok(st)
    ELSE Ok([st EXCEPT !.bal[from][asset] = @ - amount, !.bal[to][asset] = @ + amount])

deposit(st, asset, who, amount) ==
    Ok([st EXCEPT !.bal[who][asset] = @ + amount, !.issuance[asset] = @ + amount])

withdraw(st, asset, who, amount) ==
    IF st.bal[who][asset] < amount THEN Err("tokens.BalanceTooLow", st)
    ELSE Ok([st EXCEPT !.bal[who][asset] = @ - amount, !.issuance[asset] = @ - amount])

(* ------------------------- Omnipool (hub pool) -------------------------- *)
has_asset(st, id) == id \in DOMAIN st.omniAssets
\* load_asset_state: the caller tests has_asset first and returns AssetNotFound
load_asset_state(st, id) == st.omniAssets[id]

add_asset(st, id, state) ==
    IF has_asset(st, id) THEN Err("omnipool.AssetAlreadyAdded", st)
    ELSE Ok([st EXCEPT !.omniAssets = Insert(@, id, state)])

remove_asset(st, id) == Ok([st EXCEPT !.omniAssets = Remove(@, id)])

\* an asset state with signed deltas applied; checked arithmetic
apply_delta(state, d_reserve, d_hub_reserve, d_shares) ==
    [state EXCEPT !.reserve = @ + d_reserve, !.hub_reserve = @ + d_hub_reserve,
                  !.shares = @ + d_shares]
delta_ok(state, d_reserve, d_hub_reserve, d_shares) ==
    /\ state.reserve + d_reserve >= 0
    /\ state.hub_reserve + d_hub_reserve >= 0
    /\ state.shares + d_shares >= 0

update_asset_state(st, id, ch) ==
    IF ~has_asset(st, id) THEN Err("omnipool.AssetNotFound", st)
    ELSE IF ~delta_ok(st.omniAssets[id], ch.delta_reserve, ch.delta_hub_reserve, ch.delta_shares)
    THEN Err("arithmetic.Overflow", st)
    ELSE Ok([st EXCEPT !.omniAssets[id] =
                apply_delta(@, ch.delta_reserve, ch.delta_hub_reserve, ch.delta_shares)])

is_hub_asset_allowed(st, flag) == flag \in st.hubTradable

(* ------------------------------ Stableswap ------------------------------ *)
has_pool(st, pool_id) == pool_id \in DOMAIN st.pools
get_pool(st, pool_id) == st.pools[pool_id]
find_asset(pool, asset) == asset \in pool.assets

is_asset_allowed(st, pool_id, asset, flag) ==
    IF has_pool(st, pool_id) /\ asset \in DOMAIN st.pools[pool_id].tradable
    THEN flag \in st.pools[pool_id].tradable[asset]
    ELSE flag \in AllFlags

do_create_pool(st, share_asset, assets) ==
    IF has_pool(st, share_asset) THEN Err("stableswap.PoolExists", st)
    ELSE IF Cardinality(assets) < 2 THEN Err("stableswap.SameAssets", st)
    ELSE IF share_asset \in assets THEN Err("stableswap.ShareAssetInPoolAssets", st)
    ELSE Ok([st EXCEPT !.pools = Insert(@, share_asset,
                [assets |-> assets, tradable |-> [a \in assets |-> AllFlags]])])

set_asset_tradability_state(st, pool_id, asset, flags) ==
    Ok([st EXCEPT !.pools[pool_id].tradable = Insert(@, asset, flags)])

add_asset_to_existing_pool(st, pool_id, asset) ==
    IF ~has_pool(st, pool_id) THEN Err("stableswap.PoolNotFound", st)
    ELSE IF asset \in st.pools[pool_id].assets THEN Err("stableswap.AssetAlreadyInPool", st)
    ELSE IF asset = pool_id THEN Err("stableswap.ShareAssetInPoolAssets", st)
    ELSE Ok([st EXCEPT !.pools[pool_id].assets = @ \cup {asset}])

\* one entry of move_liquidity_to_pool
move_one(st, from, pool_id, asset, amount) ==
    IF ~has_pool(st, pool_id) THEN Err("stableswap.PoolNotFound", st)
    ELSE IF ~find_asset(st.pools[pool_id], asset) THEN Err("stableswap.AssetNotInPool", st)
    ELSE transfer(st, asset, from, pool_account(pool_id), amount)

deposit_shares(st, who, pool_id, amount) ==
    IF ~has_pool(st, pool_id) THEN Err("stableswap.PoolNotFound", st)
    ELSE deposit(st, pool_id, who, amount)

\* both asset states updated with the result of a trade
update_omnipool_state_given_trade_result(st, asset_in, asset_out, ch) ==
    LET r1 == update_asset_state(st, asset_in,
                  [delta_reserve |-> ch.in_reserve, delta_hub_reserve |-> -ch.in_hub,
                   delta_shares |-> 0])
    IN Then(r1, LAMBDA s : update_asset_state(s, asset_out,
                  [delta_reserve |-> -ch.out_reserve, delta_hub_reserve |-> ch.out_hub,
                   delta_shares |-> 0]))

update_omnipool_state_given_hub_asset_trade(st, asset, ch) ==
    update_asset_state(st, asset,
        [delta_reserve |-> -ch.delta_reserve, delta_hub_reserve |-> ch.delta_hub_reserve,
         delta_shares |-> 0])

(* ---------------- hydra_dx_math::omnipool / ::stableswap ---------------- *)
\* The results are the fields of m. A sell fixes the reserve delta of the
\* sold asset to the amount, a buy that of the bought asset.
calculate_shares_for_amount(m) == m.shares
calculate_shares_removed(m) == m.shares
calculate_shares(m) == m.shares
calculate_amount_to_add_for_shares(m) == m.amount
calculate_withdraw_one_asset(m) == m.withdraw

calculate_sell_state_changes(m, amount) ==
    IF m.trade = <<>> THEN <<>>
    ELSE <<[in_reserve |-> amount, in_hub |-> Unwrap(m.trade).hub,
            out_reserve |-> Unwrap(m.trade).other, out_hub |-> Unwrap(m.trade).hub]>>

calculate_buy_state_changes(m, amount) ==
    IF m.trade = <<>> THEN <<>>
    ELSE <<[in_reserve |-> Unwrap(m.trade).other, in_hub |-> Unwrap(m.trade).hub,
            out_reserve |-> amount, out_hub |-> Unwrap(m.trade).hub]>>

calculate_sell_hub_state_changes(m, amount) ==
    IF m.trade = <<>> THEN <<>>
    ELSE <<[delta_reserve |-> Unwrap(m.trade).other, delta_hub_reserve |-> amount]>>

calculate_buy_for_hub_asset_state_changes(m, amount) ==
    IF m.trade = <<>> THEN <<>>
    ELSE <<[delta_reserve |-> amount, delta_hub_reserve |-> Unwrap(m.trade).other]>>

(* ------------------- hydra_dx_math::omnipool_subpools ------------------- *)
create_new_subpool(a, b) ==
    LET q == a.hub_reserve + b.hub_reserve
    IN  [reserve |-> q, hub_reserve |-> q, shares |-> q]

\* migration details of an asset entering a subpool, and the change of the
\* share asset's state when the subpool already exists
MigrationDetails(asset, share_tokens) ==
    [price |-> <<asset.hub_reserve, asset.reserve>>, shares |-> asset.shares,
     hub_reserve |-> asset.hub_reserve, share_tokens |-> share_tokens]

calculate_asset_migration_details(asset, subpool, share_issuance) ==
    IF subpool = <<>> THEN <<[details |-> MigrationDetails(asset, asset.hub_reserve), change |-> <<>>]>>
    ELSE IF Unwrap(subpool).hub_reserve = 0 THEN <<>>
    ELSE LET sp == Unwrap(subpool)
             delta_u == (asset.hub_reserve * share_issuance) \div sp.hub_reserve
             delta_s == (asset.hub_reserve * sp.shares) \div sp.hub_reserve
         IN <<[details |-> MigrationDetails(asset, delta_u),
               change |-> <<[delta_reserve |-> delta_u, delta_hub_reserve |-> asset.hub_reserve,
                             delta_shares |-> delta_s]>>]>>

(* ----------------------------- dispatchables ---------------------------- *)
\* the bit of a flag in the hub pool's and in the stable pool's Tradability
omnipool_bit(flag) ==
    CASE flag = SELL -> 1 [] flag = BUY -> 2 [] flag = ADD_LIQUIDITY -> 4
      [] flag = REMOVE_LIQUIDITY -> 8
stableswap_bit(flag) ==
    CASE flag = SELL -> 1 [] flag = BUY -> 2 [] flag = ADD_LIQUIDITY -> 4
      [] flag = REMOVE_LIQUIDITY -> 8

\* Tradability::bits of a hub-pool flag set
bit_of(state, flag) == IF flag \in state THEN omnipool_bit(flag) ELSE 0
bits(state) ==
    bit_of(state, SELL) + bit_of(state, BUY) + bit_of(state, ADD_LIQUIDITY)
        + bit_of(state, REMOVE_LIQUIDITY)

\* the stable pool flags whose bit is set; bits of no flag are dropped
from_bits_truncate(b) == {f \in AllFlags : (b \div stableswap_bit(f)) % 2 = 1}

\* variant: every migrated asset gets the full flag set
to_stableswap_tradable_all(omnipool_state) == AllFlags

to_stableswap_tradable(omnipool_state) == from_bits_truncate(bits(omnipool_state))

\* variant: asset_b is not removed from the Omnipool
create_subpool_keeping_asset_b(st, share_asset, asset_a, asset_b) ==
    IF ~has_asset(st, asset_a) \/ ~has_asset(st, asset_b) THEN Err("omnipool.AssetNotFound", st)
    ELSE
    LET asset_state_a == load_asset_state(st, asset_a)
        asset_state_b == load_asset_state(st, asset_b)
        pool_id == share_asset
        subpool_state == create_new_subpool(asset_state_a, asset_state_b)
        det_a == calculate_asset_migration_details(asset_state_a, <<>>, 0)
        det_b == calculate_asset_migration_details(asset_state_b, <<>>, 0)
        r1 == do_create_pool(st, share_asset, {asset_a, asset_b})
        r2 == Then(r1, LAMBDA s : set_asset_tradability_state(s, pool_id, asset_a,
                                      to_stableswap_tradable(asset_state_a.tradable)))
        r3 == Then(r2, LAMBDA s : set_asset_tradability_state(s, pool_id, asset_b,
                                      to_stableswap_tradable(asset_state_b.tradable)))
        r4 == Then(r3, LAMBDA s : move_one(s, OmnipoolAccount, pool_id, asset_a, asset_state_a.reserve))
        r5 == Then(r4, LAMBDA s : move_one(s, OmnipoolAccount, pool_id, asset_b, asset_state_b.reserve))
        r6 == Then(r5, LAMBDA s : deposit_shares(s, OmnipoolAccount, pool_id, subpool_state.reserve))
        r7 == Then(r6, LAMBDA s : add_asset(s, pool_id,
                                      [reserve |-> subpool_state.reserve,
                                       hub_reserve |-> subpool_state.hub_reserve,
                                       shares |-> subpool_state.shares,
                                       tradable |-> AllFlags]))
        r8 == Then(r7, LAMBDA s : IF IsSome(det_a) /\ IsSome(det_b) THEN Ok(s)
                                  ELSE Err("subpools.Math", s))
        r9 == Then(r8, LAMBDA s : remove_asset(s, asset_a))
        r10 == r9
    IN Then(r10, LAMBDA s : Ok([s EXCEPT
            !.migratedAssets = Insert(Insert(@, asset_a, <<pool_id, Unwrap(det_a).details>>),
                                      asset_b, <<pool_id, Unwrap(det_b).details>>),
            !.subpools = @ \cup {share_asset}]))

\* variant: an asset the Omnipool does not hold is read as an empty asset state
create_subpool_defaulting_states(st, share_asset, asset_a, asset_b) ==
    LET empty == [reserve |-> 0, hub_reserve |-> 0, shares |-> 0, tradable |-> {}]
        asset_state_a == IF has_asset(st, asset_a) THEN load_asset_state(st, asset_a) ELSE empty
        asset_state_b == IF has_asset(st, asset_b) THEN load_asset_state(st, asset_b) ELSE empty
        pool_id == share_asset
        subpool_state == create_new_subpool(asset_state_a, asset_state_b)
        det_a == calculate_asset_migration_details(asset_state_a, <<>>, 0)
        det_b == calculate_asset_migration_details(asset_state_b, <<>>, 0)
        r1 == do_create_pool(st, share_asset, {asset_a, asset_b})
        r2 == Then(r1, LAMBDA s : set_asset_tradability_state(s, pool_id, asset_a,
                                      to_stableswap_tradable(asset_state_a.tradable)))
        r3 == Then(r2, LAMBDA s : set_asset_tradability_state(s, pool_id, asset_b,
                                      to_stableswap_tradable(asset_state_b.tradable)))
        r4 == Then(r3, LAMBDA s : move_one(s, OmnipoolAccount, pool_id, asset_a, asset_state_a.reserve))
        r5 == Then(r4, LAMBDA s : move_one(s, OmnipoolAccount, pool_id, asset_b, asset_state_b.reserve))
        r6 == Then(r5, LAMBDA s : deposit_shares(s, OmnipoolAccount, pool_id, subpool_state.reserve))
        r7 == Then(r6, LAMBDA s : add_asset(s, pool_id,
                                      [reserve |-> subpool_state.reserve,
                                       hub_reserve |-> subpool_state.hub_reserve,
                                       shares |-> subpool_state.shares,
                                       tradable |-> AllFlags]))
        r8 == Then(r7, LAMBDA s : IF IsSome(det_a) /\ IsSome(det_b) THEN Ok(s)
                                  ELSE Err("subpools.Math", s))
        r9 == Then(r8, LAMBDA s : remove_asset(s, asset_a))
        r10 == Then(r9, LAMBDA s : remove_asset(s, asset_b))
    IN Then(r10, LAMBDA s : Ok([s EXCEPT
            !.migratedAssets = Insert(Insert(@, asset_a, <<pool_id, Unwrap(det_a).details>>),
                                      asset_b, <<pool_id, Unwrap(det_b).details>>),
            !.subpools = @ \cup {share_asset}]))

\* variant: the share tokens deposited are the reserve of asset_a
create_subpool_depositing_reserve_a(st, share_asset, asset_a, asset_b) ==
    IF ~has_asset(st, asset_a) \/ ~has_asset(st, asset_b) THEN Err("omnipool.AssetNotFound", st)
    ELSE
    LET asset_state_a == load_asset_state(st, asset_a)
        asset_state_b == load_asset_state(st, asset_b)
        pool_id == share_asset
        subpool_state == create_new_subpool(asset_state_a, asset_state_b)
        det_a == calculate_asset_migration_details(asset_state_a, <<>>, 0)
        det_b == calculate_asset_migration_details(asset_state_b, <<>>, 0)
        r1 == do_create_pool(st, share_asset, {asset_a, asset_b})
        r2 == Then(r1, LAMBDA s : set_asset_tradability_state(s, pool_id, asset_a,
                                      to_stableswap_tradable(asset_state_a.tradable)))
        r3 == Then(r2, LAMBDA s : set_asset_tradability_state(s, pool_id, asset_b,
                                      to_stableswap_tradable(asset_state_b.tradable)))
        r4 == Then(r3, LAMBDA s : move_one(s, OmnipoolAccount, pool_id, asset_a, asset_state_a.reserve))
        r5 == Then(r4, LAMBDA s : move_one(s, OmnipoolAccount, pool_id, asset_b, asset_state_b.reserve))
        r6 == Then(r5, LAMBDA s : deposit_shares(s, OmnipoolAccount, pool_id, asset_state_a.reserve))
        r7 == Then(r6, LAMBDA s : add_asset(s, pool_id,
                                      [reserve |-> subpool_state.reserve,
                                       hub_reserve |-> subpool_state.hub_reserve,
                                       shares |-> subpool_state.shares,
                                       tradable |-> AllFlags]))
        r8 == Then(r7, LAMBDA s : IF IsSome(det_a) /\ IsSome(det_b) THEN Ok(s)
                                  ELSE Err("subpools.Math", s))
        r9 == Then(r8, LAMBDA s : remove_asset(s, asset_a))
        r10 == Then(r9, LAMBDA s : remove_asset(s, asset_b))
    IN Then(r10, LAMBDA s : Ok([s EXCEPT
            !.migratedAssets = Insert(Insert(@, asset_a, <<pool_id, Unwrap(det_a).details>>),
                                      asset_b, <<pool_id, Unwrap(det_b).details>>),
            !.subpools = @ \cup {share_asset}]))

create_subpool(st, share_asset, asset_a, asset_b) ==
    IF ~has_asset(st, asset_a) \/ ~has_asset(st, asset_b) THEN Err("omnipool.AssetNotFound", st)
    ELSE
    LET asset_state_a == load_asset_state(st, asset_a)
        asset_state_b == load_asset_state(st, asset_b)
        pool_id == share_asset
        subpool_state == create_new_subpool(asset_state_a, asset_state_b)
        det_a == calculate_asset_migration_details(asset_state_a, <<>>, 0)
        det_b == calculate_asset_migration_details(asset_state_b, <<>>, 0)
        r1 == do_create_pool(st, share_asset, {asset_a, asset_b})
        r2 == Then(r1, LAMBDA s : set_asset_tradability_state(s, pool_id, asset_a,
                                      to_stableswap_tradable(asset_state_a.tradable)))
        r3 == Then(r2, LAMBDA s : set_asset_tradability_state(s, pool_id, asset_b,
                                      to_stableswap_tradable(asset_state_b.tradable)))
        r4 == Then(r3, LAMBDA s : move_one(s, OmnipoolAccount, pool_id, asset_a, asset_state_a.reserve))
        r5 == Then(r4, LAMBDA s : move_one(s, OmnipoolAccount, pool_id, asset_b, asset_state_b.reserve))
        r6 == Then(r5, LAMBDA s : deposit_shares(s, OmnipoolAccount, pool_id, subpool_state.reserve))
        r7 == Then(r6, LAMBDA s : add_asset(s, pool_id,
                                      [reserve |-> subpool_state.reserve,
                                       hub_reserve |-> subpool_state.hub_reserve,
                                       shares |-> subpool_state.shares,
                                       tradable |-> AllFlags]))
        r8 == Then(r7, LAMBDA s : IF IsSome(det_a) /\ IsSome(det_b) THEN Ok(s)
                                  ELSE Err("subpools.Math", s))
        r9 == Then(r8, LAMBDA s : remove_asset(s, asset_a))
        r10 == Then(r9, LAMBDA s : remove_asset(s, asset_b))
    IN Then(r10, LAMBDA s : Ok([s EXCEPT
            !.migratedAssets = Insert(Insert(@, asset_a, <<pool_id, Unwrap(det_a).details>>),
                                      asset_b, <<pool_id, Unwrap(det_b).details>>),
            !.subpools = @ \cup {share_asset}]))

\* variant: the asset states are loaded before the subpool registry is consulted
migrate_asset_to_subpool_loading_first(st, pool_id, asset_id, overflow) ==
    IF ~has_asset(st, asset_id) \/ ~has_asset(st, pool_id) THEN Err("omnipool.AssetNotFound", st)
    ELSE IF pool_id \notin st.subpools THEN Err("subpools.SubpoolNotFound", st)
    ELSE
    LET asset_state == load_asset_state(st, asset_id)
        subpool_state == load_asset_state(st, pool_id)
        r1 == add_asset_to_existing_pool(st, pool_id, asset_id)
        r2 == Then(r1, LAMBDA s : move_one(s, OmnipoolAccount, pool_id, asset_id, asset_state.reserve))
        \* the result of set_asset_tradability_state is dropped, not propagated
        r3 == Then(r2, LAMBDA s : Ok(set_asset_tradability_state(s, pool_id, asset_id,
                                      to_stableswap_tradable(asset_state.tradable)).st))
        r4 == Then(r3, LAMBDA s : remove_asset(s, asset_id))
        \* the share issuance is read after remove_asset; nothing mints before that
        \* overflow: the checked arithmetic of the calculation gives None
        md == IF overflow THEN <<>>
              ELSE calculate_asset_migration_details(asset_state, <<subpool_state>>,
                                                     total_issuance(st, pool_id))
        r5 == Then(r4, LAMBDA s : IF IsSome(md) /\ IsSome(Unwrap(md).change) THEN Ok(s)
                                  ELSE Err("subpools.Math", s))
        r6 == Then(r5, LAMBDA s : deposit_shares(s, OmnipoolAccount, pool_id,
                                      Unwrap(Unwrap(md).change).delta_reserve))
        r7 == Then(r6, LAMBDA s : update_asset_state(s, pool_id, Unwrap(Unwrap(md).change)))
    IN Then(r7, LAMBDA s : Ok([s EXCEPT
            !.migratedAssets = Insert(@, asset_id, <<pool_id, Unwrap(md).details>>)]))

\* variant: the migrated asset stays in the hub pool
migrate_asset_to_subpool_keeping_asset(st, pool_id, asset_id, overflow) ==
    IF pool_id \notin st.subpools THEN Err("subpools.SubpoolNotFound", st)
    ELSE IF ~has_asset(st, asset_id) \/ ~has_asset(st, pool_id) THEN Err("omnipool.AssetNotFound", st)
    ELSE
    LET asset_state == load_asset_state(st, asset_id)
        subpool_state == load_asset_state(st, pool_id)
        r1 == add_asset_to_existing_pool(st, pool_id, asset_id)
        r2 == Then(r1, LAMBDA s : move_one(s, OmnipoolAccount, pool_id, asset_id, asset_state.reserve))
        \* the result of set_asset_tradability_state is dropped, not propagated
        r3 == Then(r2, LAMBDA s : Ok(set_asset_tradability_state(s, pool_id, asset_id,
                                      to_stableswap_tradable(asset_state.tradable)).st))
        r4 == r3
        \* the share issuance is read after remove_asset; nothing mints before that
        \* overflow: the checked arithmetic of the calculation gives None
        md == IF overflow THEN <<>>
              ELSE calculate_asset_migration_details(asset_state, <<subpool_state>>,
                                                     total_issuance(st, pool_id))
        r5 == Then(r4, LAMBDA s : IF IsSome(md) /\ IsSome(Unwrap(md).change) THEN Ok(s)
                                  ELSE Err("subpools.Math", s))
        r6 == Then(r5, LAMBDA s : deposit_shares(s, OmnipoolAccount, pool_id,
                                      Unwrap(Unwrap(md).change).delta_reserve))
        r7 == Then(r6, LAMBDA s : update_asset_state(s, pool_id, Unwrap(Unwrap(md).change)))
    IN Then(r7, LAMBDA s : Ok([s EXCEPT
            !.migratedAssets = Insert(@, asset_id, <<pool_id, Unwrap(md).details>>)]))

migrate_asset_to_subpool(st, pool_id, asset_id, overflow) ==
    IF pool_id \notin st.subpools THEN Err("subpools.SubpoolNotFound", st)
    ELSE IF ~has_asset(st, asset_id) \/ ~has_asset(st, pool_id) THEN Err("omnipool.AssetNotFound", st)
    ELSE
    LET asset_state == load_asset_state(st, asset_id)
        subpool_state == load_asset_state(st, pool_id)
        r1 == add_asset_to_existing_pool(st, pool_id, asset_id)
        r2 == Then(r1, LAMBDA s : move_one(s, OmnipoolAccount, pool_id, asset_id, asset_state.reserve))
        \* the result of set_asset_tradability_state is dropped, not propagated
        r3 == Then(r2, LAMBDA s : Ok(set_asset_tradability_state(s, pool_id, asset_id,
                                      to_stableswap_tradable(asset_state.tradable)).st))
        r4 == Then(r3, LAMBDA s : remove_asset(s, asset_id))
        \* the share issuance is read after remove_asset; nothing mints before that
        \* overflow: the checked arithmetic of the calculation gives None
        md == IF overflow THEN <<>>
              ELSE calculate_asset_migration_details(asset_state, <<subpool_state>>,
                                                     total_issuance(st, pool_id))
        r5 == Then(r4, LAMBDA s : IF IsSome(md) /\ IsSome(Unwrap(md).change) THEN Ok(s)
                                  ELSE Err("subpools.Math", s))
        r6 == Then(r5, LAMBDA s : deposit_shares(s, OmnipoolAccount, pool_id,
                                      Unwrap(Unwrap(md).change).delta_reserve))
        r7 == Then(r6, LAMBDA s : update_asset_state(s, pool_id, Unwrap(Unwrap(md).change)))
    IN Then(r7, LAMBDA s : Ok([s EXCEPT
            !.migratedAssets = Insert(@, asset_id, <<pool_id, Unwrap(md).details>>)]))

(* --------------------- trade resolution: helpers ------------------------ *)
Math(st) == Err("subpools.Math", st)
\* a result labelled with the routine that produced it
Tag(h, r) == [err |-> r.err, st |-> r.st, handler |-> h]

(* ----------------- trades between two different subpools ---------------- *)

\* variant: the limit is checked after the bought asset was paid out
resolve_buy_between_subpools_checking_limit_late(st, who, asset_in, asset_out, subpool_id_in, subpool_id_out, amount_out, max_limit, m) ==
    Tag("resolve_buy_between_subpools",
    IF ~(is_asset_allowed(st, subpool_id_in, asset_in, SELL)
         /\ is_asset_allowed(st, subpool_id_out, asset_out, BUY))
    THEN Err("subpools.NotAllowed", st)
    ELSE IF ~has_pool(st, subpool_id_in) \/ ~has_pool(st, subpool_id_out)
    THEN Err("stableswap.PoolNotFound", st)
    ELSE IF ~find_asset(get_pool(st, subpool_id_in), asset_in)
            \/ ~find_asset(get_pool(st, subpool_id_out), asset_out)
    THEN Err("stableswap.AssetNotInPool", st)
    ELSE IF ~has_asset(st, subpool_id_in) \/ ~has_asset(st, subpool_id_out)
    THEN Err("omnipool.AssetNotFound", st)
    ELSE LET delta_u == calculate_shares_removed(m) IN
    IF ~IsSome(delta_u) THEN Math(st)
    ELSE LET buy_changes == calculate_buy_state_changes(m, Unwrap(delta_u)) IN
    IF ~IsSome(buy_changes) THEN Math(st)
    ELSE LET delta_t_j == calculate_amount_to_add_for_shares(m) IN
    IF ~IsSome(delta_t_j) THEN Math(st)
    ELSE IF ~(Unwrap(delta_t_j) <= max_limit)
    THEN Then(transfer(st, asset_out, pool_account(subpool_id_out), who, amount_out),
              LAMBDA s : Err("subpools.LimitExceeded", s))
    ELSE
    LET ch == Unwrap(buy_changes)
        r1 == transfer(st, asset_in, who, pool_account(subpool_id_in), Unwrap(delta_t_j))
        r2 == Then(r1, LAMBDA s : transfer(s, asset_out, pool_account(subpool_id_out), who, amount_out))
        r3 == Then(r2, LAMBDA s : withdraw(s, subpool_id_out, OmnipoolAccount, ch.out_reserve))
        r4 == Then(r3, LAMBDA s : deposit(s, subpool_id_in, OmnipoolAccount, ch.in_reserve))
    IN Then(r4, LAMBDA s : update_omnipool_state_given_trade_result(s, subpool_id_in, subpool_id_out, ch)))

resolve_buy_between_subpools(st, who, asset_in, asset_out, subpool_id_in, subpool_id_out, amount_out, max_limit, m) ==
    Tag("resolve_buy_between_subpools",
    IF ~(is_asset_allowed(st, subpool_id_in, asset_in, SELL)
         /\ is_asset_allowed(st, subpool_id_out, asset_out, BUY))
    THEN Err("subpools.NotAllowed", st)
    ELSE IF ~has_pool(st, subpool_id_in) \/ ~has_pool(st, subpool_id_out)
    THEN Err("stableswap.PoolNotFound", st)
    ELSE IF ~find_asset(get_pool(st, subpool_id_in), asset_in)
            \/ ~find_asset(get_pool(st, subpool_id_out), asset_out)
    THEN Err("stableswap.AssetNotInPool", st)
    ELSE IF ~has_asset(st, subpool_id_in) \/ ~has_asset(st, subpool_id_out)
    THEN Err("omnipool.AssetNotFound", st)
    ELSE LET delta_u == calculate_shares_removed(m) IN
    IF ~IsSome(delta_u) THEN Math(st)
    ELSE LET buy_changes == calculate_buy_state_changes(m, Unwrap(delta_u)) IN
    IF ~IsSome(buy_changes) THEN Math(st)
    ELSE LET delta_t_j == calculate_amount_to_add_for_shares(m) IN
    IF ~IsSome(delta_t_j) THEN Math(st)
    ELSE IF ~(Unwrap(delta_t_j) <= max_limit) THEN Err("subpools.LimitExceeded", st)
    ELSE
    LET ch == Unwrap(buy_changes)
        r1 == transfer(st, asset_in, who, pool_account(subpool_id_in), Unwrap(delta_t_j))
        r2 == Then(r1, LAMBDA s : transfer(s, asset_out, pool_account(subpool_id_out), who, amount_out))
        r3 == Then(r2, LAMBDA s : withdraw(s, subpool_id_out, OmnipoolAccount, ch.out_reserve))
        r4 == Then(r3, LAMBDA s : deposit(s, subpool_id_in, OmnipoolAccount, ch.in_reserve))
    IN Then(r4, LAMBDA s : update_omnipool_state_given_trade_result(s, subpool_id_in, subpool_id_out, ch)))

\* variant: the minimum-amount check is missing
resolve_sell_between_subpools_without_limit(st, who, asset_in, asset_out, subpool_id_in, subpool_id_out, amount_in, min_limit, m) ==
    Tag("resolve_sell_between_subpools",
    IF ~(is_asset_allowed(st, subpool_id_in, asset_in, SELL)
         /\ is_asset_allowed(st, subpool_id_out, asset_out, BUY))
    THEN Err("subpools.NotAllowed", st)
    ELSE IF ~has_pool(st, subpool_id_in) \/ ~has_pool(st, subpool_id_out)
    THEN Err("stableswap.PoolNotFound", st)
    ELSE IF ~find_asset(get_pool(st, subpool_id_in), asset_in)
            \/ ~find_asset(get_pool(st, subpool_id_out), asset_out)
    THEN Err("stableswap.AssetNotInPool", st)
    ELSE IF ~has_asset(st, subpool_id_in) \/ ~has_asset(st, subpool_id_out)
    THEN Err("omnipool.AssetNotFound", st)
    ELSE LET delta_u == calculate_shares_for_amount(m) IN
    IF ~IsSome(delta_u) THEN Math(st)
    ELSE LET sell_changes == calculate_sell_state_changes(m, Unwrap(delta_u)) IN
    IF ~IsSome(sell_changes) THEN Math(st)
    ELSE LET w == calculate_withdraw_one_asset(m) IN
    IF ~IsSome(w) THEN Math(st)
    ELSE IF Unwrap(w).amount < Unwrap(w).fee THEN Math(st)
    ELSE LET delta_t_j == Unwrap(w).amount - Unwrap(w).fee IN
    LET ch == Unwrap(sell_changes)
        r1 == transfer(st, asset_in, who, pool_account(subpool_id_in), amount_in)
        r2 == Then(r1, LAMBDA s : transfer(s, asset_out, pool_account(subpool_id_out), who, delta_t_j))
        r3 == Then(r2, LAMBDA s : withdraw(s, subpool_id_out, OmnipoolAccount, ch.out_reserve))
        r4 == Then(r3, LAMBDA s : deposit(s, subpool_id_in, OmnipoolAccount, ch.in_reserve))
    IN Then(r4, LAMBDA s : update_omnipool_state_given_trade_result(s, subpool_id_in, subpool_id_out, ch)))

resolve_sell_between_subpools(st, who, asset_in, asset_out, subpool_id_in, subpool_id_out, amount_in, min_limit, m) ==
    Tag("resolve_sell_between_subpools",
    IF ~(is_asset_allowed(st, subpool_id_in, asset_in, SELL)
         /\ is_asset_allowed(st, subpool_id_out, asset_out, BUY))
    THEN Err("subpools.NotAllowed", st)
    ELSE IF ~has_pool(st, subpool_id_in) \/ ~has_pool(st, subpool_id_out)
    THEN Err("stableswap.PoolNotFound", st)
    ELSE IF ~find_asset(get_pool(st, subpool_id_in), asset_in)
            \/ ~find_asset(get_pool(st, subpool_id_out), asset_out)
    THEN Err("stableswap.AssetNotInPool", st)
    ELSE IF ~has_asset(st, subpool_id_in) \/ ~has_asset(st, subpool_id_out)
    THEN Err("omnipool.AssetNotFound", st)
    ELSE LET delta_u == calculate_shares_for_amount(m) IN
    IF ~IsSome(delta_u) THEN Math(st)
    ELSE LET sell_changes == calculate_sell_state_changes(m, Unwrap(delta_u)) IN
    IF ~IsSome(sell_changes) THEN Math(st)
    ELSE LET w == calculate_withdraw_one_asset(m) IN
    IF ~IsSome(w) THEN Math(st)
    ELSE IF Unwrap(w).amount < Unwrap(w).fee THEN Math(st)
    ELSE LET delta_t_j == Unwrap(w).amount - Unwrap(w).fee IN
    IF ~(delta_t_j >= min_limit) THEN Err("subpools.LimitNotReached", st)
    ELSE
    LET ch == Unwrap(sell_changes)
        r1 == transfer(st, asset_in, who, pool_account(subpool_id_in), amount_in)
        r2 == Then(r1, LAMBDA s : transfer(s, asset_out, pool_account(subpool_id_out), who, delta_t_j))
        r3 == Then(r2, LAMBDA s : withdraw(s, subpool_id_out, OmnipoolAccount, ch.out_reserve))
        r4 == Then(r3, LAMBDA s : deposit(s, subpool_id_in, OmnipoolAccount, ch.in_reserve))
    IN Then(r4, LAMBDA s : update_omnipool_state_given_trade_result(s, subpool_id_in, subpool_id_out, ch)))

(* -------------- sell: stable asset in, Omnipool asset out --------------- *)
resolve_mixed_trade_iso_out_given_stable_in(st, who, asset_in, asset_out, subpool_id_in, amount_in, min_limit, m) ==
    Tag("resolve_mixed_trade_iso_out_given_stable_in",
    IF asset_out = HubAssetId THEN Err("omnipool.NotAllowed", st)
    ELSE IF ~has_asset(st, asset_out) \/ ~has_asset(st, subpool_id_in)
    THEN Err("omnipool.AssetNotFound", st)
    ELSE IF ~(is_asset_allowed(st, subpool_id_in, asset_in, SELL)
              /\ BUY \in load_asset_state(st, asset_out).tradable)
    THEN Err("subpools.NotAllowed", st)
    ELSE IF ~has_pool(st, subpool_id_in) THEN Err("stableswap.PoolNotFound", st)
    ELSE IF ~find_asset(get_pool(st, subpool_id_in), asset_in)
    THEN Err("stableswap.AssetNotInPool", st)
    ELSE LET delta_u == calculate_shares_for_amount(m) IN
    IF ~IsSome(delta_u) THEN Math(st)
    ELSE LET sell_changes == calculate_sell_state_changes(m, Unwrap(delta_u)) IN
    IF ~IsSome(sell_changes) THEN Math(st)
    ELSE IF ~(Unwrap(sell_changes).out_reserve >= min_limit)
    THEN Err("subpools.LimitNotReached", st)
    ELSE
    LET ch == Unwrap(sell_changes)
        r1 == transfer(st, asset_in, who, pool_account(subpool_id_in), amount_in)
        r2 == Then(r1, LAMBDA s : transfer(s, asset_out, OmnipoolAccount, who, ch.out_reserve))
        r3 == Then(r2, LAMBDA s : deposit(s, subpool_id_in, OmnipoolAccount, ch.in_reserve))
    IN Then(r3, LAMBDA s : update_omnipool_state_given_trade_result(s, subpool_id_in, asset_out, ch)))

(* ---------------- sell: hub asset in, stable asset out ------------------ *)

\* variant: the shares sold by the hub pool are not burned
resolve_mixed_trade_stable_out_given_hub_asset_in_without_burn(st, who, asset_in, asset_out, subpool_id_out, amount_in, min_limit, m) ==
    Tag("resolve_mixed_trade_stable_out_given_hub_asset_in",
    IF asset_in # HubAssetId THEN Err("omnipool.NotAllowed", st)
    ELSE IF ~has_asset(st, subpool_id_out) THEN Err("omnipool.AssetNotFound", st)
    ELSE IF ~has_pool(st, subpool_id_out) THEN Err("stableswap.PoolNotFound", st)
    ELSE IF ~(is_asset_allowed(st, subpool_id_out, asset_out, BUY)
              /\ is_hub_asset_allowed(st, SELL))
    THEN Err("subpools.NotAllowed", st)
    ELSE IF ~find_asset(get_pool(st, subpool_id_out), asset_out)
    THEN Err("stableswap.AssetNotInPool", st)
    ELSE LET sell_changes == calculate_sell_hub_state_changes(m, amount_in) IN
    IF ~IsSome(sell_changes) THEN Math(st)
    ELSE LET w == calculate_withdraw_one_asset(m) IN
    IF ~IsSome(w) THEN Math(st)
    ELSE IF Unwrap(w).amount < Unwrap(w).fee THEN Math(st)
    ELSE LET delta_t_j == Unwrap(w).amount - Unwrap(w).fee IN
    IF ~(delta_t_j >= min_limit) THEN Err("subpools.LimitNotReached", st)
    ELSE
    LET ch == Unwrap(sell_changes)
        r1 == transfer(st, asset_in, who, OmnipoolAccount, ch.delta_hub_reserve)
        r2 == Then(r1, LAMBDA s : transfer(s, asset_out, pool_account(subpool_id_out), who, delta_t_j))
        r3 == r2
    IN Then(r3, LAMBDA s : update_omnipool_state_given_hub_asset_trade(s, subpool_id_out, ch)))

resolve_mixed_trade_stable_out_given_hub_asset_in(st, who, asset_in, asset_out, subpool_id_out, amount_in, min_limit, m) ==
    Tag("resolve_mixed_trade_stable_out_given_hub_asset_in",
    IF asset_in # HubAssetId THEN Err("omnipool.NotAllowed", st)
    ELSE IF ~has_asset(st, subpool_id_out) THEN Err("omnipool.AssetNotFound", st)
    ELSE IF ~has_pool(st, subpool_id_out) THEN Err("stableswap.PoolNotFound", st)
    ELSE IF ~(is_asset_allowed(st, subpool_id_out, asset_out, BUY)
              /\ is_hub_asset_allowed(st, SELL))
    THEN Err("subpools.NotAllowed", st)
    ELSE IF ~find_asset(get_pool(st, subpool_id_out), asset_out)
    THEN Err("stableswap.AssetNotInPool", st)
    ELSE LET sell_changes == calculate_sell_hub_state_changes(m, amount_in) IN
    IF ~IsSome(sell_changes) THEN Math(st)
    ELSE LET w == calculate_withdraw_one_asset(m) IN
    IF ~IsSome(w) THEN Math(st)
    ELSE IF Unwrap(w).amount < Unwrap(w).fee THEN Math(st)
    ELSE LET delta_t_j == Unwrap(w).amount - Unwrap(w).fee IN
    IF ~(delta_t_j >= min_limit) THEN Err("subpools.LimitNotReached", st)
    ELSE
    LET ch == Unwrap(sell_changes)
        r1 == transfer(st, asset_in, who, OmnipoolAccount, ch.delta_hub_reserve)
        r2 == Then(r1, LAMBDA s : transfer(s, asset_out, pool_account(subpool_id_out), who, delta_t_j))
        r3 == Then(r2, LAMBDA s : withdraw(s, subpool_id_out, OmnipoolAccount, ch.delta_reserve))
    IN Then(r3, LAMBDA s : update_omnipool_state_given_hub_asset_trade(s, subpool_id_out, ch)))

(* -------------- sell: Omnipool asset in, stable asset out --------------- *)

\* variant: the caller pays the reserve delta of the asset bought
resolve_mixed_trade_stable_out_given_asset_in_taking_delta_out(st, who, asset_in, asset_out, subpool_id_out, amount_in, min_limit, m) ==
    IF asset_in = HubAssetId
    THEN resolve_mixed_trade_stable_out_given_hub_asset_in(st, who, asset_in, asset_out,
                                                           subpool_id_out, amount_in, min_limit, m)
    ELSE Tag("resolve_mixed_trade_stable_out_given_asset_in",
    IF ~has_asset(st, asset_in) \/ ~has_asset(st, subpool_id_out)
    THEN Err("omnipool.AssetNotFound", st)
    ELSE IF ~(is_asset_allowed(st, subpool_id_out, asset_out, BUY)
              /\ SELL \in load_asset_state(st, asset_in).tradable)
    THEN Err("subpools.NotAllowed", st)
    ELSE IF ~has_pool(st, subpool_id_out) THEN Err("stableswap.PoolNotFound", st)
    ELSE IF ~find_asset(get_pool(st, subpool_id_out), asset_out)
    THEN Err("stableswap.AssetNotInPool", st)
    ELSE LET sell_changes == calculate_sell_state_changes(m, amount_in) IN
    IF ~IsSome(sell_changes) THEN Math(st)
    ELSE LET w == calculate_withdraw_one_asset(m) IN
    IF ~IsSome(w) THEN Math(st)
    ELSE IF Unwrap(w).amount < Unwrap(w).fee THEN Math(st)
    ELSE LET delta_t_j == Unwrap(w).amount - Unwrap(w).fee IN
    IF ~(delta_t_j >= min_limit) THEN Err("subpools.LimitNotReached", st)
    ELSE
    LET ch == Unwrap(sell_changes)
        r1 == transfer(st, asset_in, who, OmnipoolAccount, ch.out_reserve)
        r2 == Then(r1, LAMBDA s : transfer(s, asset_out, pool_account(subpool_id_out), who, delta_t_j))
        r3 == Then(r2, LAMBDA s : withdraw(s, subpool_id_out, OmnipoolAccount, ch.out_reserve))
    IN Then(r3, LAMBDA s : update_omnipool_state_given_trade_result(s, asset_in, subpool_id_out, ch)))

resolve_mixed_trade_stable_out_given_asset_in(st, who, asset_in, asset_out, subpool_id_out, amount_in, min_limit, m) ==
    IF asset_in = HubAssetId
    THEN resolve_mixed_trade_stable_out_given_hub_asset_in(st, who, asset_in, asset_out,
                                                           subpool_id_out, amount_in, min_limit, m)
    ELSE Tag("resolve_mixed_trade_stable_out_given_asset_in",
    IF ~has_asset(st, asset_in) \/ ~has_asset(st, subpool_id_out)
    THEN Err("omnipool.AssetNotFound", st)
    ELSE IF ~(is_asset_allowed(st, subpool_id_out, asset_out, BUY)
              /\ SELL \in load_asset_state(st, asset_in).tradable)
    THEN Err("subpools.NotAllowed", st)
    ELSE IF ~has_pool(st, subpool_id_out) THEN Err("stableswap.PoolNotFound", st)
    ELSE IF ~find_asset(get_pool(st, subpool_id_out), asset_out)
    THEN Err("stableswap.AssetNotInPool", st)
    ELSE LET sell_changes == calculate_sell_state_changes(m, amount_in) IN
    IF ~IsSome(sell_changes) THEN Math(st)
    ELSE LET w == calculate_withdraw_one_asset(m) IN
    IF ~IsSome(w) THEN Math(st)
    ELSE IF Unwrap(w).amount < Unwrap(w).fee THEN Math(st)
    ELSE LET delta_t_j == Unwrap(w).amount - Unwrap(w).fee IN
    IF ~(delta_t_j >= min_limit) THEN Err("subpools.LimitNotReached", st)
    ELSE
    LET ch == Unwrap(sell_changes)
        r1 == transfer(st, asset_in, who, OmnipoolAccount, ch.in_reserve)
        r2 == Then(r1, LAMBDA s : transfer(s, asset_out, pool_account(subpool_id_out), who, delta_t_j))
        r3 == Then(r2, LAMBDA s : withdraw(s, subpool_id_out, OmnipoolAccount, ch.out_reserve))
    IN Then(r3, LAMBDA s : update_omnipool_state_given_trade_result(s, asset_in, subpool_id_out, ch)))

(* --------------- buy: stable asset in, Omnipool asset out --------------- *)

\* variant: the hub asset is not refused as asset_out
resolve_mixed_trade_stable_in_given_asset_out_without_hub_check(st, who, asset_in, asset_out, subpool_id_in, amount_out, max_limit, m) ==
    Tag("resolve_mixed_trade_stable_in_given_asset_out",
    IF ~has_asset(st, asset_out) \/ ~has_asset(st, subpool_id_in)
    THEN Err("omnipool.AssetNotFound", st)
    ELSE IF ~(is_asset_allowed(st, subpool_id_in, asset_in, SELL)
              /\ BUY \in load_asset_state(st, asset_out).tradable)
    THEN Err("subpools.NotAllowed", st)
    ELSE IF ~has_pool(st, subpool_id_in) THEN Err("stableswap.PoolNotFound", st)
    ELSE IF ~find_asset(get_pool(st, subpool_id_in), asset_in)
    THEN Err("stableswap.AssetNotInPool", st)
    ELSE LET buy_changes == calculate_buy_state_changes(m, amount_out) IN
    IF ~IsSome(buy_changes) THEN Math(st)
    ELSE LET delta_t_j == calculate_amount_to_add_for_shares(m) IN
    IF ~IsSome(delta_t_j) THEN Math(st)
    ELSE IF ~(Unwrap(delta_t_j) <= max_limit) THEN Err("subpools.LimitExceeded", st)
    ELSE
    LET ch == Unwrap(buy_changes)
        r1 == transfer(st, asset_in, who, pool_account(subpool_id_in), Unwrap(delta_t_j))
        r2 == Then(r1, LAMBDA s : transfer(s, asset_out, OmnipoolAccount, who, ch.out_reserve))
        r3 == Then(r2, LAMBDA s : deposit(s, subpool_id_in, OmnipoolAccount, ch.in_reserve))
    IN Then(r3, LAMBDA s : update_omnipool_state_given_trade_result(s, subpool_id_in, asset_out, ch)))

resolve_mixed_trade_stable_in_given_asset_out(st, who, asset_in, asset_out, subpool_id_in, amount_out, max_limit, m) ==
    Tag("resolve_mixed_trade_stable_in_given_asset_out",
    IF asset_out = HubAssetId THEN Err("omnipool.NotAllowed", st)
    ELSE IF ~has_asset(st, asset_out) \/ ~has_asset(st, subpool_id_in)
    THEN Err("omnipool.AssetNotFound", st)
    ELSE IF ~(is_asset_allowed(st, subpool_id_in, asset_in, SELL)
              /\ BUY \in load_asset_state(st, asset_out).tradable)
    THEN Err("subpools.NotAllowed", st)
    ELSE IF ~has_pool(st, subpool_id_in) THEN Err("stableswap.PoolNotFound", st)
    ELSE IF ~find_asset(get_pool(st, subpool_id_in), asset_in)
    THEN Err("stableswap.AssetNotInPool", st)
    ELSE LET buy_changes == calculate_buy_state_changes(m, amount_out) IN
    IF ~IsSome(buy_changes) THEN Math(st)
    ELSE LET delta_t_j == calculate_amount_to_add_for_shares(m) IN
    IF ~IsSome(delta_t_j) THEN Math(st)
    ELSE IF ~(Unwrap(delta_t_j) <= max_limit) THEN Err("subpools.LimitExceeded", st)
    ELSE
    LET ch == Unwrap(buy_changes)
        r1 == transfer(st, asset_in, who, pool_account(subpool_id_in), Unwrap(delta_t_j))
        r2 == Then(r1, LAMBDA s : transfer(s, asset_out, OmnipoolAccount, who, ch.out_reserve))
        r3 == Then(r2, LAMBDA s : deposit(s, subpool_id_in, OmnipoolAccount, ch.in_reserve))
    IN Then(r3, LAMBDA s : update_omnipool_state_given_trade_result(s, subpool_id_in, asset_out, ch)))

(* ----------------- buy: hub asset in, stable asset out ------------------ *)

resolve_mixed_trade_hub_asset_in_given_stable_out(st, who, asset_in, asset_out, subpool_id_out, amount_out, max_limit, m) ==
    Tag("resolve_mixed_trade_hub_asset_in_given_stable_out",
    IF asset_in # HubAssetId THEN Err("omnipool.NotAllowed", st)
    ELSE IF ~has_asset(st, subpool_id_out) THEN Err("omnipool.AssetNotFound", st)
    ELSE IF ~has_pool(st, subpool_id_out) THEN Err("stableswap.PoolNotFound", st)
    ELSE IF ~(is_asset_allowed(st, subpool_id_out, asset_out, BUY)
              /\ is_hub_asset_allowed(st, SELL))
    THEN Err("subpools.NotAllowed", st)
    ELSE IF ~find_asset(get_pool(st, subpool_id_out), asset_out)
    THEN Err("stableswap.AssetNotInPool", st)
    ELSE LET delta_u == calculate_shares_removed(m) IN
    IF ~IsSome(delta_u) THEN Math(st)
    ELSE LET buy_changes == calculate_buy_for_hub_asset_state_changes(m, Unwrap(delta_u)) IN
    IF ~IsSome(buy_changes) THEN Math(st)
    ELSE IF ~(Unwrap(buy_changes).delta_reserve <= max_limit)
    THEN Err("subpools.LimitExceeded", st)
    ELSE
    LET ch == Unwrap(buy_changes)
        r1 == transfer(st, asset_in, who, OmnipoolAccount, ch.delta_hub_reserve)
        r2 == Then(r1, LAMBDA s : transfer(s, asset_out, pool_account(subpool_id_out), who, amount_out))
        r3 == Then(r2, LAMBDA s : withdraw(s, subpool_id_out, OmnipoolAccount, ch.delta_reserve))
    IN Then(r3, LAMBDA s : update_omnipool_state_given_hub_asset_trade(s, subpool_id_out, ch)))

(* --------------- buy: Omnipool asset in, stable asset out --------------- *)
resolve_mixed_trade_iso_in_given_stable_out(st, who, asset_in, asset_out, subpool_id_out, amount_out, max_limit, m) ==
    IF asset_in = HubAssetId
    THEN resolve_mixed_trade_hub_asset_in_given_stable_out(st, who, asset_in, asset_out,
                                                           subpool_id_out, amount_out, max_limit, m)
    ELSE Tag("resolve_mixed_trade_iso_in_given_stable_out",
    IF ~has_asset(st, asset_in) \/ ~has_asset(st, subpool_id_out)
    THEN Err("omnipool.AssetNotFound", st)
    ELSE IF ~(is_asset_allowed(st, subpool_id_out, asset_out, BUY)
              /\ SELL \in load_asset_state(st, asset_in).tradable)
    THEN Err("subpools.NotAllowed", st)
    ELSE IF ~has_pool(st, subpool_id_out) THEN Err("stableswap.PoolNotFound", st)
    ELSE IF ~find_asset(get_pool(st, subpool_id_out), asset_out)
    THEN Err("stableswap.AssetNotInPool", st)
    ELSE LET delta_u == calculate_shares_removed(m) IN
    IF ~IsSome(delta_u) THEN Math(st)
    ELSE LET buy_changes == calculate_buy_state_changes(m, Unwrap(delta_u)) IN
    IF ~IsSome(buy_changes) THEN Math(st)
    ELSE IF ~(Unwrap(buy_changes).in_reserve <= max_limit)
    THEN Err("subpools.LimitExceeded", st)
    ELSE
    LET ch == Unwrap(buy_changes)
        r1 == transfer(st, asset_in, who, OmnipoolAccount, ch.in_reserve)
        r2 == Then(r1, LAMBDA s : transfer(s, asset_out, pool_account(subpool_id_out), who, amount_out))
        r3 == Then(r2, LAMBDA s : withdraw(s, subpool_id_out, OmnipoolAccount, ch.out_reserve))
    IN Then(r3, LAMBDA s : update_omnipool_state_given_trade_result(s, asset_in, subpool_id_out, ch)))

(* --------------- Omnipool and Stableswap: their own trades -------------- *)
omnipool_sell(st, who, asset_in, asset_out, amount, min_buy_amount, m) ==
    IF asset_in = asset_out THEN Err("omnipool.SameAssetTradeNotAllowed", st)
    ELSE IF asset_out = HubAssetId THEN Err("omnipool.NotAllowed", st)
    ELSE IF asset_in = HubAssetId THEN
        IF ~has_asset(st, asset_out) THEN Err("omnipool.AssetNotFound", st)
        ELSE IF ~(is_hub_asset_allowed(st, SELL) /\ BUY \in load_asset_state(st, asset_out).tradable)
        THEN Err("omnipool.NotAllowed", st)
        ELSE LET c == calculate_sell_hub_state_changes(m, amount) IN
        IF ~IsSome(c) THEN Err("arithmetic.Overflow", st)
        ELSE IF Unwrap(c).delta_reserve < min_buy_amount THEN Err("omnipool.BuyLimitNotReached", st)
        ELSE
        LET r1 == transfer(st, asset_in, who, OmnipoolAccount, Unwrap(c).delta_hub_reserve)
            r2 == Then(r1, LAMBDA s : transfer(s, asset_out, OmnipoolAccount, who, Unwrap(c).delta_reserve))
        IN Then(r2, LAMBDA s : update_omnipool_state_given_hub_asset_trade(s, asset_out, Unwrap(c)))
    ELSE IF ~has_asset(st, asset_in) \/ ~has_asset(st, asset_out) THEN Err("omnipool.AssetNotFound", st)
    ELSE IF ~(SELL \in load_asset_state(st, asset_in).tradable
              /\ BUY \in load_asset_state(st, asset_out).tradable)
    THEN Err("omnipool.NotAllowed", st)
    ELSE LET c == calculate_sell_state_changes(m, amount) IN
    IF ~IsSome(c) THEN Err("arithmetic.Overflow", st)
    ELSE IF Unwrap(c).out_reserve < min_buy_amount THEN Err("omnipool.BuyLimitNotReached", st)
    ELSE
    LET r1 == transfer(st, asset_in, who, OmnipoolAccount, Unwrap(c).in_reserve)
        r2 == Then(r1, LAMBDA s : transfer(s, asset_out, OmnipoolAccount, who, Unwrap(c).out_reserve))
    IN Then(r2, LAMBDA s : update_omnipool_state_given_trade_result(s, asset_in, asset_out, Unwrap(c)))

omnipool_buy(st, who, asset_out, asset_in, amount, max_sell_amount, m) ==
    IF asset_in = asset_out THEN Err("omnipool.SameAssetTradeNotAllowed", st)
    ELSE IF asset_out = HubAssetId THEN Err("omnipool.NotAllowed", st)
    ELSE IF asset_in = HubAssetId THEN
        IF ~has_asset(st, asset_out) THEN Err("omnipool.AssetNotFound", st)
        ELSE IF ~(is_hub_asset_allowed(st, SELL) /\ BUY \in load_asset_state(st, asset_out).tradable)
        THEN Err("omnipool.NotAllowed", st)
        ELSE LET c == calculate_buy_for_hub_asset_state_changes(m, amount) IN
        IF ~IsSome(c) THEN Err("arithmetic.Overflow", st)
        ELSE IF Unwrap(c).delta_hub_reserve > max_sell_amount THEN Err("omnipool.SellLimitExceeded", st)
        ELSE
        LET r1 == transfer(st, asset_in, who, OmnipoolAccount, Unwrap(c).delta_hub_reserve)
            r2 == Then(r1, LAMBDA s : transfer(s, asset_out, OmnipoolAccount, who, Unwrap(c).delta_reserve))
        IN Then(r2, LAMBDA s : update_omnipool_state_given_hub_asset_trade(s, asset_out, Unwrap(c)))
    ELSE IF ~has_asset(st, asset_in) \/ ~has_asset(st, asset_out) THEN Err("omnipool.AssetNotFound", st)
    ELSE IF ~(SELL \in load_asset_state(st, asset_in).tradable
              /\ BUY \in load_asset_state(st, asset_out).tradable)
    THEN Err("omnipool.NotAllowed", st)
    ELSE LET c == calculate_buy_state_changes(m, amount) IN
    IF ~IsSome(c) THEN Err("arithmetic.Overflow", st)
    ELSE IF Unwrap(c).in_reserve > max_sell_amount THEN Err("omnipool.SellLimitExceeded", st)
    ELSE
    LET r1 == transfer(st, asset_in, who, OmnipoolAccount, Unwrap(c).in_reserve)
        r2 == Then(r1, LAMBDA s : transfer(s, asset_out, OmnipoolAccount, who, Unwrap(c).out_reserve))
    IN Then(r2, LAMBDA s : update_omnipool_state_given_trade_result(s, asset_in, asset_out, Unwrap(c)))

stableswap_sell(st, who, pool_id, asset_in, asset_out, amount_in, min_buy_amount, m) ==
    IF ~(is_asset_allowed(st, pool_id, asset_in, SELL) /\ is_asset_allowed(st, pool_id, asset_out, BUY))
    THEN Err("stableswap.NotAllowed", st)
    ELSE IF ~has_pool(st, pool_id) THEN Err("stableswap.PoolNotFound", st)
    ELSE IF ~find_asset(get_pool(st, pool_id), asset_in) \/ ~find_asset(get_pool(st, pool_id), asset_out)
    THEN Err("stableswap.AssetNotInPool", st)
    ELSE IF asset_in = asset_out \/ ~IsSome(m.amount) THEN Err("arithmetic.Overflow", st)
    ELSE IF Unwrap(m.amount) < min_buy_amount THEN Err("stableswap.BuyLimitNotReached", st)
    ELSE
    LET r1 == transfer(st, asset_in, who, pool_account(pool_id), amount_in)
    IN Then(r1, LAMBDA s : transfer(s, asset_out, pool_account(pool_id), who, Unwrap(m.amount)))

stableswap_buy(st, who, pool_id, asset_out, asset_in, amount_out, max_sell_amount, m) ==
    IF ~(is_asset_allowed(st, pool_id, asset_in, SELL) /\ is_asset_allowed(st, pool_id, asset_out, BUY))
    THEN Err("stableswap.NotAllowed", st)
    ELSE IF ~has_pool(st, pool_id) THEN Err("stableswap.PoolNotFound", st)
    ELSE IF ~find_asset(get_pool(st, pool_id), asset_in) \/ ~find_asset(get_pool(st, pool_id), asset_out)
    THEN Err("stableswap.AssetNotInPool", st)
    ELSE IF asset_in = asset_out \/ ~IsSome(m.amount) THEN Err("arithmetic.Overflow", st)
    ELSE IF Unwrap(m.amount) > max_sell_amount THEN Err("stableswap.SellLimitExceeded", st)
    ELSE
    LET r1 == transfer(st, asset_in, who, pool_account(pool_id), Unwrap(m.amount))
    IN Then(r1, LAMBDA s : transfer(s, asset_out, pool_account(pool_id), who, amount_out))

(* ------------------------------ sell, buy ------------------------------- *)
\* MigratedAssets::get
migrated_assets(st, asset) ==
    IF asset \in DOMAIN st.migratedAssets THEN <<st.migratedAssets[asset]>> ELSE <<>>

\* variant: two migrated assets always go to the between-subpools resolver
sell_ignoring_pool_ids(st, who, asset_in, asset_out, amount, min_buy_amount, m) ==
    LET mi == migrated_assets(st, asset_in)
        mo == migrated_assets(st, asset_out)
    IN  IF mi = <<>> /\ mo = <<>>
        THEN Tag("omnipool_sell", omnipool_sell(st, who, asset_in, asset_out, amount, min_buy_amount, m))
        ELSE IF mi # <<>> /\ mo # <<>>
        THEN resolve_sell_between_subpools(st, who, asset_in, asset_out, Unwrap(mi)[1],
                                           Unwrap(mo)[1], amount, min_buy_amount, m)
        ELSE IF mi # <<>>
        THEN resolve_mixed_trade_iso_out_given_stable_in(st, who, asset_in, asset_out,
                                                         Unwrap(mi)[1], amount, min_buy_amount, m)
        ELSE resolve_mixed_trade_stable_out_given_asset_in(st, who, asset_in, asset_out,
                                                           Unwrap(mo)[1], amount, min_buy_amount, m)

sell(st, who, asset_in, asset_out, amount, min_buy_amount, m) ==
    LET mi == migrated_assets(st, asset_in)
        mo == migrated_assets(st, asset_out)
    IN  IF mi = <<>> /\ mo = <<>>
        THEN Tag("omnipool_sell", omnipool_sell(st, who, asset_in, asset_out, amount, min_buy_amount, m))
        ELSE IF mi # <<>> /\ mo # <<>> /\ Unwrap(mi)[1] = Unwrap(mo)[1]
        THEN Tag("stableswap_sell", stableswap_sell(st, who, Unwrap(mi)[1], asset_in, asset_out,
                                                    amount, min_buy_amount, m))
        ELSE IF mi # <<>> /\ mo # <<>>
        THEN resolve_sell_between_subpools(st, who, asset_in, asset_out, Unwrap(mi)[1],
                                           Unwrap(mo)[1], amount, min_buy_amount, m)
        ELSE IF mi # <<>>
        THEN resolve_mixed_trade_iso_out_given_stable_in(st, who, asset_in, asset_out,
                                                         Unwrap(mi)[1], amount, min_buy_amount, m)
        ELSE resolve_mixed_trade_stable_out_given_asset_in(st, who, asset_in, asset_out,
                                                           Unwrap(mo)[1], amount, min_buy_amount, m)

buy(st, who, asset_out, asset_in, amount, max_sell_amount, m) ==
    LET mi == migrated_assets(st, asset_in)
        mo == migrated_assets(st, asset_out)
    IN  IF mi = <<>> /\ mo = <<>>
        THEN Tag("omnipool_buy", omnipool_buy(st, who, asset_out, asset_in, amount, max_sell_amount, m))
        ELSE IF mi # <<>> /\ mo # <<>> /\ Unwrap(mi)[1] = Unwrap(mo)[1]
        THEN Tag("stableswap_buy", stableswap_buy(st, who, Unwrap(mi)[1], asset_out, asset_in,
                                                  amount, max_sell_amount, m))
        ELSE IF mi # <<>> /\ mo # <<>>
        THEN resolve_buy_between_subpools(st, who, asset_in, asset_out, Unwrap(mi)[1],
                                          Unwrap(mo)[1], amount, max_sell_amount, m)
        ELSE IF mi # <<>>
        THEN resolve_mixed_trade_stable_in_given_asset_out(st, who, asset_in, asset_out,
                                                           Unwrap(mi)[1], amount, max_sell_amount, m)
        ELSE resolve_mixed_trade_iso_in_given_stable_out(st, who, asset_in, asset_out,
                                                         Unwrap(mo)[1], amount, max_sell_amount, m)

(* --------------------------- remove_liquidity --------------------------- *)
has_position(st, position_id) == position_id \in DOMAIN st.positions

set_position(st, position_id, position) ==
    IF ~has_position(st, position_id) THEN Err("omnipool.PositionNotFound", st)
    ELSE Ok([st EXCEPT !.positions[position_id] =
                [@ EXCEPT !.asset_id = position.asset_id, !.amount = position.amount,
                          !.shares = position.shares, !.price = position.price]])

\* pallet_omnipool::remove_liquidity: the stored position's shares leave the
\* asset, the owner receives the proportional part of the reserve
omnipool_remove_liquidity(st, who, position_id, amount) ==
    IF ~has_position(st, position_id) THEN Err("omnipool.PositionNotFound", st)
    ELSE IF st.positions[position_id].owner # who THEN Err("omnipool.Forbidden", st)
    ELSE
    LET position == st.positions[position_id] IN
    IF ~has_asset(st, position.asset_id) THEN Err("omnipool.AssetNotFound", st)
    ELSE
    LET state == load_asset_state(st, position.asset_id) IN
    IF REMOVE_LIQUIDITY \notin state.tradable THEN Err("omnipool.NotAllowed", st)
    ELSE IF position.shares < amount THEN Err("omnipool.InsufficientShares", st)
    ELSE IF state.shares = 0 THEN Err("arithmetic.Overflow", st)
    ELSE
    LET delta_reserve == (amount * state.reserve) \div state.shares
        delta_hub == (amount * state.hub_reserve) \div state.shares
        delta_amount == (amount * position.amount) \div position.shares
        r1 == update_asset_state(st, position.asset_id,
                  [delta_reserve |-> -delta_reserve, delta_hub_reserve |-> -delta_hub,
                   delta_shares |-> -amount])
        r2 == Then(r1, LAMBDA s : transfer(s, position.asset_id, OmnipoolAccount, who, delta_reserve))
    IN Then(r2, LAMBDA s :
            IF position.shares = amount
            THEN Ok([s EXCEPT !.positions = Remove(@, position_id)])
            ELSE Ok([s EXCEPT !.positions[position_id].shares = @ - amount,
                              !.positions[position_id].amount = @ - delta_amount]))

\* pallet_stableswap::remove_liquidity_one_asset
remove_liquidity_one_asset(st, who, pool_id, asset_id, share_amount, m) ==
    IF share_amount = 0 THEN Err("stableswap.InvalidAssetAmount", st)
    ELSE IF free_balance(st, pool_id, who) < share_amount THEN Err("stableswap.InsufficientShares", st)
    ELSE IF ~has_pool(st, pool_id) THEN Err("stableswap.PoolNotFound", st)
    ELSE IF ~find_asset(get_pool(st, pool_id), asset_id) THEN Err("stableswap.AssetNotInPool", st)
    ELSE IF ~is_asset_allowed(st, pool_id, asset_id, REMOVE_LIQUIDITY) THEN Err("stableswap.NotAllowed", st)
    ELSE IF ~IsSome(m.amount) THEN Err("arithmetic.Overflow", st)
    ELSE
    LET r1 == withdraw(st, pool_id, who, share_amount)
    IN Then(r1, LAMBDA s : transfer(s, asset_id, pool_account(pool_id), who, Unwrap(m.amount)))

\* hydra_dx_math::omnipool_subpools::convert_position
math_convert_position(position, details) ==
    IF details.shares = 0 THEN <<>>
    ELSE <<[amount |-> (position.amount * details.share_tokens) \div details.shares,
            shares |-> (position.shares * details.hub_reserve) \div details.shares,
            price |-> <<position.price[1] * details.price[2], position.price[2] * details.price[1]>>]>>

\* variant: the converted position keeps the entry price of the old one
convert_position_keeping_price(pool_id, migration_details, position) ==
    LET converted == math_convert_position(position, migration_details)
    IN  IF ~IsSome(converted) THEN <<>>
        ELSE <<[position EXCEPT !.asset_id = pool_id, !.amount = Unwrap(converted).amount,
                                !.shares = Unwrap(converted).shares,
                                !.price = position.price]>>

convert_position(pool_id, migration_details, position) ==
    LET converted == math_convert_position(position, migration_details)
    IN  IF ~IsSome(converted) THEN <<>>
        ELSE <<[position EXCEPT !.asset_id = pool_id, !.amount = Unwrap(converted).amount,
                                !.shares = Unwrap(converted).shares,
                                !.price = Unwrap(converted).price]>>

\* variant: without a withdraw asset the caller simply keeps the subpool shares
remove_liquidity_keeping_shares(st, who, position_id, share_amount, asset, m) ==
    IF ~has_position(st, position_id) THEN Err("omnipool.PositionNotFound", st)
    ELSE IF st.positions[position_id].owner # who THEN Err("omnipool.Forbidden", st)
    ELSE
    LET loaded == st.positions[position_id]
        mig == migrated_assets(st, loaded.asset_id)
        conv == IF IsSome(mig) THEN convert_position(Unwrap(mig)[1], Unwrap(mig)[2], loaded)
                ELSE <<loaded>>
    IN
    IF ~IsSome(conv) THEN Math(st)
    ELSE
    LET position == Unwrap(conv)
        r1 == IF IsSome(mig) THEN set_position(st, position_id, position) ELSE Ok(st)
        r2 == Then(r1, LAMBDA s : omnipool_remove_liquidity(s, who, position_id, share_amount))
    IN Then(r2, LAMBDA s :
            IF position.asset_id \in s.subpools /\ IsSome(asset)
            THEN remove_liquidity_one_asset(s, who, position.asset_id, Unwrap(asset),
                                            free_balance(s, position.asset_id, who), m)
            ELSE IF position.asset_id \in s.subpools
            THEN Ok(s)
            ELSE Ok(s))

remove_liquidity(st, who, position_id, share_amount, asset, m) ==
    IF ~has_position(st, position_id) THEN Err("omnipool.PositionNotFound", st)
    ELSE IF st.positions[position_id].owner # who THEN Err("omnipool.Forbidden", st)
    ELSE
    LET loaded == st.positions[position_id]
        mig == migrated_assets(st, loaded.asset_id)
        conv == IF IsSome(mig) THEN convert_position(Unwrap(mig)[1], Unwrap(mig)[2], loaded)
                ELSE <<loaded>>
    IN
    IF ~IsSome(conv) THEN Math(st)
    ELSE
    LET position == Unwrap(conv)
        r1 == IF IsSome(mig) THEN set_position(st, position_id, position) ELSE Ok(st)
        r2 == Then(r1, LAMBDA s : omnipool_remove_liquidity(s, who, position_id, share_amount))
    IN Then(r2, LAMBDA s :
            IF position.asset_id \in s.subpools /\ IsSome(asset)
            THEN remove_liquidity_one_asset(s, who, position.asset_id, Unwrap(asset),
                                            free_balance(s, position.asset_id, who), m)
            ELSE IF position.asset_id \in s.subpools
            THEN Err("subpools.WithdrawAssetNotSpecified", s)
            ELSE Ok(s))

(* ------------------------- adding liquidity ----------------------------- *)
\* pallet_stableswap::do_add_liquidity with one asset: the amount goes to the
\* pool account, the shares the math gives are minted to the provider
do_add_liquidity(st, who, pool_id, asset_id, amount, m) ==
    IF ~has_pool(st, pool_id) THEN Err("stableswap.PoolNotFound", st)
    ELSE IF ~find_asset(get_pool(st, pool_id), asset_id) THEN Err("stableswap.AssetNotInPool", st)
    ELSE IF ~is_asset_allowed(st, pool_id, asset_id, ADD_LIQUIDITY) THEN Err("stableswap.NotAllowed", st)
    ELSE IF amount = 0 THEN Err("stableswap.InvalidAssetAmount", st)
    ELSE IF free_balance(st, asset_id, who) < amount THEN Err("stableswap.InsufficientBalance", st)
    ELSE IF ~IsSome(calculate_shares(m)) THEN Err("arithmetic.Overflow", st)
    ELSE
    LET r1 == transfer(st, asset_id, who, pool_account(pool_id), amount)
    IN Then(r1, LAMBDA s : deposit(s, pool_id, who, Unwrap(calculate_shares(m))))

\* pallet_omnipool::add_liquidity: the amount goes to the hub-pool account,
\* shares and hub asset grow in proportion, the provider gets a new position
omnipool_add_liquidity(st, who, asset, amount) ==
    IF ~has_asset(st, asset) THEN Err("omnipool.AssetNotFound", st)
    ELSE
    LET state == load_asset_state(st, asset) IN
    IF ADD_LIQUIDITY \notin state.tradable THEN Err("omnipool.NotAllowed", st)
    ELSE IF amount = 0 THEN Err("omnipool.InsufficientLiquidity", st)
    ELSE IF free_balance(st, asset, who) < amount THEN Err("omnipool.InsufficientBalance", st)
    ELSE IF state.reserve = 0 THEN Err("arithmetic.Overflow", st)
    ELSE
    LET delta_shares == (state.shares * amount) \div state.reserve
        delta_hub == (state.hub_reserve * amount) \div state.reserve
        r1 == update_asset_state(st, asset,
                  [delta_reserve |-> amount, delta_hub_reserve |-> delta_hub,
                   delta_shares |-> delta_shares])
        r2 == Then(r1, LAMBDA s : deposit(s, HubAssetId, OmnipoolAccount, delta_hub))
        r3 == Then(r2, LAMBDA s : transfer(s, asset, who, OmnipoolAccount, amount))
    IN Then(r3, LAMBDA s :
            Ok([s EXCEPT
                !.positions = Insert(@, s.nextPositionId,
                    [owner |-> who, asset_id |-> asset, amount |-> amount,
                     shares |-> delta_shares,
                     price |-> <<s.omniAssets[asset].hub_reserve, s.omniAssets[asset].reserve>>]),
                !.nextPositionId = @ + 1]))

\* variant: the hub pool is given the amount of the asset, not the shares minted
add_liquidity_depositing_amount(st, who, asset_id, amount, m) ==
    LET mig == migrated_assets(st, asset_id) IN
    IF IsSome(mig)
    THEN LET pool_id == Unwrap(mig)[1]
             r1 == do_add_liquidity(st, who, pool_id, asset_id, amount, m)
         IN Then(r1, LAMBDA s : omnipool_add_liquidity(s, who, pool_id, amount))
    ELSE omnipool_add_liquidity(st, who, asset_id, amount)

add_liquidity(st, who, asset_id, amount, m) ==
    LET mig == migrated_assets(st, asset_id) IN
    IF IsSome(mig)
    THEN LET pool_id == Unwrap(mig)[1]
             r1 == do_add_liquidity(st, who, pool_id, asset_id, amount, m)
         IN Then(r1, LAMBDA s : omnipool_add_liquidity(s, who, pool_id, Unwrap(calculate_shares(m))))
    ELSE omnipool_add_liquidity(st, who, asset_id, amount)

\* variant: the shares always go to the hub pool for a position
add_liquidity_stable_always_minting(st, who, asset_id, amount, mint_nft, m) ==
    LET mig == migrated_assets(st, asset_id) IN
    IF IsSome(mig)
    THEN LET pool_id == Unwrap(mig)[1]
             r1 == do_add_liquidity(st, who, pool_id, asset_id, amount, m)
         IN Then(r1, LAMBDA s :
                IF TRUE
                THEN omnipool_add_liquidity(s, who, pool_id, Unwrap(calculate_shares(m)))
                ELSE Ok(s))
    ELSE Err("subpools.NotStableAsset", st)

add_liquidity_stable(st, who, asset_id, amount, mint_nft, m) ==
    LET mig == migrated_assets(st, asset_id) IN
    IF IsSome(mig)
    THEN LET pool_id == Unwrap(mig)[1]
             r1 == do_add_liquidity(st, who, pool_id, asset_id, amount, m)
         IN Then(r1, LAMBDA s :
                IF mint_nft
                THEN omnipool_add_liquidity(s, who, pool_id, Unwrap(calculate_shares(m)))
                ELSE Ok(s))
    ELSE Err("subpools.NotStableAsset", st)

(* ------------------------------- dispatch ------------------------------- *)
\* Every call runs in a storage layer: its writes are kept when it returns
\* Ok and discarded when it returns an error.

\* variant: the call does not run in a storage layer, a failed call keeps its writes
Dispatch_without_storage_layer(st, r) == r.st

Dispatch(st, r) == IF r.err = "Ok" THEN r.st ELSE st

Commit(st) ==
    /\ omniAssets' = st.omniAssets
    /\ hubTradable' = st.hubTradable
    /\ positions' = st.positions
    /\ nextPositionId' = st.nextPositionId
    /\ pools' = st.pools
    /\ bal' = st.bal
    /\ issuance' = st.issuance
    /\ migratedAssets' = st.migratedAssets
    /\ subpools' = st.subpools

\* what is remembered of a call: the dispatchable and its arguments, the
\* routine that handled it, its result, whether it had written storage when
\* it returned, and the storage it was dispatched on
Record(op, handler, args, r) ==
    [op |-> op, handler |-> handler, args |-> args, err |-> r.err,
     wrote |-> (r.st # Storage), pre |-> Storage]

(* ------------------------------- inputs --------------------------------- *)
\* <<asset_in, asset_out>>
TradePairs == {<<"a", "b">>, <<"a", "c">>, <<"c", "a">>, <<HubAssetId, "a">>, <<"a", HubAssetId>>}
CreateArgs == {<<"s1", "a", "b">>, <<"s2", "c", "d">>, <<"s2", "a", "b">>,
               <<"s1", "a", "x">>, <<"s1", "a", "a">>, <<"c", "a", "b">>,
               <<"s1", "c", "s2">>, <<"s2", "s1", "c">>}
MigrateAssets == {"c", "x", "s2"}
WithdrawAssets == {"a", "c"}
TradeResults == [other : Amounts, hub : {HubDelta}]
WithdrawResults == [amount : Amounts, fee : {0, Fee}]
MathSet(us, ut, ua, uw) ==
    [shares : IF us THEN Option(Amounts) ELSE {<<>>},
     trade : IF ut THEN Option(TradeResults) ELSE {<<>>},
     amount : IF ua THEN Option(Amounts) ELSE {<<>>},
     withdraw : IF uw THEN Option(WithdrawResults) ELSE {<<>>}]

\* the assets liquidity is added for
LiquidityAssets == {"a", "c"}
\* the math result adding liquidity of this asset consults
AddMath(asset_id) ==
    IF migrated_assets(Storage, asset_id) = <<>> THEN MathSet(FALSE, FALSE, FALSE, FALSE)
    ELSE MathSet(TRUE, FALSE, FALSE, FALSE)

\* the math results a sell of this pair consults
SellMath(asset_in, asset_out) ==
    LET mi == migrated_assets(Storage, asset_in)
        mo == migrated_assets(Storage, asset_out)
    IN  IF mi = <<>> /\ mo = <<>> THEN MathSet(FALSE, TRUE, FALSE, FALSE)
        ELSE IF mi # <<>> /\ mo # <<>> /\ Unwrap(mi)[1] = Unwrap(mo)[1]
        THEN MathSet(FALSE, FALSE, TRUE, FALSE)
        ELSE IF mi # <<>> /\ mo # <<>> THEN MathSet(TRUE, TRUE, FALSE, TRUE)
        ELSE IF mi # <<>> THEN MathSet(TRUE, TRUE, FALSE, FALSE)
        ELSE MathSet(FALSE, TRUE, FALSE, TRUE)

\* the math results a buy of this pair consults
BuyMath(asset_in, asset_out) ==
    LET mi == migrated_assets(Storage, asset_in)
        mo == migrated_assets(Storage, asset_out)
    IN  IF mi = <<>> /\ mo = <<>> THEN MathSet(FALSE, TRUE, FALSE, FALSE)
        ELSE IF mi # <<>> /\ mo # <<>> /\ Unwrap(mi)[1] = Unwrap(mo)[1]
        THEN MathSet(FALSE, FALSE, TRUE, FALSE)
        ELSE IF mi # <<>> /\ mo # <<>> THEN MathSet(TRUE, TRUE, TRUE, FALSE)
        ELSE IF mi # <<>> THEN MathSet(FALSE, TRUE, TRUE, FALSE)
        ELSE MathSet(TRUE, TRUE, FALSE, FALSE)

(* -------------------------------- Init ---------------------------------- *)
\* Genesis: the four tokens are Omnipool assets whose reserve the protocol
\* account holds, ALICE holds tokens to trade and one position on "a".
\* The tradability of "a" and of the hub asset is one the authority may set:
\* <<flags of "a", flags of the hub asset>>.
FlagChoices == {<<AllFlags, {SELL}>>, <<AllFlags \ {SELL}, {}>>, <<AllFlags \ {BUY}, {SELL}>>}

Init ==
    /\ \E f \in FlagChoices :
        /\ omniAssets = [a \in NativeAssets |->
              [reserve |-> InitReserve, hub_reserve |-> InitReserve, shares |-> InitReserve,
               tradable |-> IF a = "a" THEN f[1] ELSE AllFlags]]
        /\ hubTradable = f[2]
    /\ positions = [p \in {1} |->
            [owner |-> ALICE, asset_id |-> "a", amount |-> InitReserve,
             shares |-> InitReserve, price |-> <<1, 1>>]]
    /\ nextPositionId = 2
    /\ pools = << >>
    /\ bal = [w \in Accounts |-> [a \in Assets |->
            IF w = OmnipoolAccount /\ a \in NativeAssets THEN InitReserve
            ELSE IF w = OmnipoolAccount /\ a = HubAssetId THEN InitReserve * Cardinality(NativeAssets)
            ELSE IF w = ALICE /\ a \in NativeAssets \cup {HubAssetId} THEN InitBalance
            ELSE 0]]
    /\ issuance = [a \in Assets |->
            IF a \in NativeAssets THEN InitReserve + InitBalance
            ELSE IF a = HubAssetId THEN InitReserve * Cardinality(NativeAssets) + InitBalance
            ELSE 0]
    /\ migratedAssets = << >>
    /\ subpools = {}
    /\ last = [op |-> "genesis", handler |-> "none", args |-> <<>>, err |-> "Ok",
               wrote |-> FALSE, pre |-> Storage]
    /\ phase = "setup"
    /\ blockNumber = 0
    /\ stablePool = << >>
    /\ lastStable = << >>
    /\ scheduleOwnership = << >>
    /\ suspended = {}
    /\ scheduleIdsPerBlock = << >>
    /\ lastDca = << >>
    /\ rateConfig = << >>
    /\ accumulatedDeferredAmounts = << >>
    /\ lastRate = << >>

(* ------------------------------- actions -------------------------------- *)
\* A behaviour is a sequence of pool-management calls ("setup") and removals.
\* One trade may be made during setup or right after the first removal
\* ("removed"), not after later calls ("removing"); one call that adds
\* liquidity may be made during setup or after the trade ("traded") and ends
\* the behaviour ("closed"), except that after add_liquidity_stable without
\* a position the provider holds share tokens ("holding") and one removal
\* may follow. A behaviour is followed up to its first failed call: a failed
\* call leaves the storage as it was, so nothing new lies beyond it.
Trades == {"sell", "buy"}
Running == last.err = "Ok" /\ phase \in {"setup", "removed", "removing"}
Trading == last.err = "Ok" /\ phase \in {"setup", "removed"}
Adding == last.err = "Ok" /\ phase \in {"setup", "traded"} /\ nextPositionId <= MaxPositions
\* the phase a pool-management call and a removal leave
Managed == IF phase = "setup" THEN "setup" ELSE "removing"
Removed == IF phase = "setup" THEN "removed" ELSE IF phase = "holding" THEN "closed" ELSE "removing"
Removing == Running \/ (last.err = "Ok" /\ phase = "holding")

CreateSubpool ==
    /\ Running
    /\ \E args \in CreateArgs :
        \E r \in {create_subpool(Storage, args[1], args[2], args[3])} :
            /\ Commit(Dispatch(Storage, r))
            /\ last' = Record("create_subpool", "create_subpool",
                              [share_asset |-> args[1], asset_a |-> args[2], asset_b |-> args[3]], r)
            /\ phase' = Managed
            /\ UNCHANGED <<blockNumber, stableswapVars, dcaVars, rateLimiterVars>>

MigrateAssetToSubpool ==
    /\ Running
    /\ \E pool_id \in ShareAssets, asset_id \in MigrateAssets, overflow \in BOOLEAN :
        \E r \in {migrate_asset_to_subpool(Storage, pool_id, asset_id, overflow)} :
            /\ Commit(Dispatch(Storage, r))
            /\ last' = Record("migrate_asset_to_subpool", "migrate_asset_to_subpool",
                              [pool_id |-> pool_id, asset_id |-> asset_id], r)
            /\ phase' = Managed
            /\ UNCHANGED <<blockNumber, stableswapVars, dcaVars, rateLimiterVars>>

RemoveLiquidity ==
    /\ Removing
    /\ \E position_id \in PositionIds, share_amount \in Amounts, asset \in Option(WithdrawAssets),
          m \in MathSet(FALSE, FALSE, TRUE, FALSE) :
        \E r \in {remove_liquidity(Storage, ALICE, position_id, share_amount, asset, m)} :
            /\ Commit(Dispatch(Storage, r))
            /\ last' = Record("remove_liquidity", "remove_liquidity",
                              [position_id |-> position_id, share_amount |-> share_amount,
                               asset |-> asset], r)
            /\ phase' = Removed
            /\ UNCHANGED <<blockNumber, stableswapVars, dcaVars, rateLimiterVars>>

AddLiquidity ==
    /\ Adding
    /\ \E asset_id \in LiquidityAssets, amount \in Amounts :
        \E m \in AddMath(asset_id) :
            \E r \in {add_liquidity(Storage, ALICE, asset_id, amount, m)} :
                /\ Commit(Dispatch(Storage, r))
                /\ last' = Record("add_liquidity", "add_liquidity",
                                  [asset_id |-> asset_id, amount |-> amount], r)
                /\ phase' = "closed"
                /\ UNCHANGED <<blockNumber, stableswapVars, dcaVars, rateLimiterVars>>

AddLiquidityStable ==
    /\ Adding /\ phase = "setup"
    /\ \E asset_id \in LiquidityAssets, amount \in Amounts, mint_nft \in BOOLEAN :
        \E m \in AddMath(asset_id) :
            \E r \in {add_liquidity_stable(Storage, ALICE, asset_id, amount, mint_nft, m)} :
                /\ Commit(Dispatch(Storage, r))
                /\ last' = Record("add_liquidity_stable", "add_liquidity_stable",
                                  [asset_id |-> asset_id, amount |-> amount,
                                   mint_nft |-> mint_nft], r)
                /\ phase' = IF mint_nft THEN "closed" ELSE "holding"
                /\ UNCHANGED <<blockNumber, stableswapVars, dcaVars, rateLimiterVars>>

Sell ==
    /\ Trading
    /\ \E pair \in TradePairs, amount \in Amounts, min_buy_amount \in Amounts :
        \E m \in SellMath(pair[1], pair[2]) :
            \E r \in {sell(Storage, ALICE, pair[1], pair[2], amount, min_buy_amount, m)} :
                /\ Commit(Dispatch(Storage, r))
                /\ last' = Record("sell", r.handler,
                                  [asset_in |-> pair[1], asset_out |-> pair[2],
                                   amount |-> amount, limit |-> min_buy_amount,
                                   withdraw |-> m.withdraw], r)
                /\ phase' = "traded"
                /\ UNCHANGED <<blockNumber, stableswapVars, dcaVars, rateLimiterVars>>

Buy ==
    /\ Trading
    /\ \E pair \in TradePairs, amount \in Amounts, max_sell_amount \in Amounts :
        \E m \in BuyMath(pair[1], pair[2]) :
            \E r \in {buy(Storage, ALICE, pair[2], pair[1], amount, max_sell_amount, m)} :
                /\ Commit(Dispatch(Storage, r))
                /\ last' = Record("buy", r.handler,
                                  [asset_in |-> pair[1], asset_out |-> pair[2],
                                   amount |-> amount, limit |-> max_sell_amount], r)
                /\ phase' = "traded"
                /\ UNCHANGED <<blockNumber, stableswapVars, dcaVars, rateLimiterVars>>

Next ==
    \/ CreateSubpool \/ MigrateAssetToSubpool \/ RemoveLiquidity
    \/ AddLiquidity \/ AddLiquidityStable \/ Sell \/ Buy

Spec == Init /\ [][Next]_vars

(* ------------------- the pallets followed on their own ------------------- *)
\* the variables of a pallet while another one is followed
StableswapIdle == stablePool = << >> /\ lastStable = << >>
DcaIdle == scheduleOwnership = << >> /\ suspended = {} /\ scheduleIdsPerBlock = << >> /\ lastDca = << >>
RateLimiterIdle == rateConfig = << >> /\ accumulatedDeferredAmounts = << >> /\ lastRate = << >>

(* ------------------- pallet_stableswap and its solver ------------------- *)
(* The stableswap pallet on its own, as the tests of                       *)
(* pallets/stableswap/src/tests/invariants.rs drive it: one pool of two    *)
(* assets, its reserves <<reserve of asset 1, reserve of asset 2>>, its    *)
(* share issuance and its amplification ramp. The arithmetic is the              *)
(* integer arithmetic of the solver: \div rounds down.                     *)

\* the iteration caps of the two Newton solves, and the number of steps a
\* solve is followed for
MAX_D_ITERATIONS == 2
MAX_Y_ITERATIONS == 5
MaxSteps == 8

None == << >>
AssetIndexes == {1, 2}
other(idx) == 3 - idx

\* two successive estimates differ by at most one unit
has_converged(v0, v1) == (IF v1 > v0 THEN v1 - v0 ELSE v0 - v1) <= 1

\* the Newton loop: from x0, step until two successive estimates have
\* converged, a step fails, or cap steps were made
Newton(step(_), x0, cap) ==
    LET it[i \in 0..MaxSteps] ==
            IF i = 0 THEN [v |-> x0, prev |-> x0, n |-> 0, done |-> FALSE, failed |-> FALSE]
            ELSE LET p == it[i - 1] IN
                 IF p.done \/ p.failed \/ p.n >= cap THEN p
                 ELSE LET v == step(p.v) IN
                      IF v = None THEN [p EXCEPT !.failed = TRUE]
                      ELSE [v |-> Unwrap(v), prev |-> p.v, n |-> p.n + 1,
                            done |-> has_converged(p.v, Unwrap(v)), failed |-> FALSE]
    IN it[MaxSteps]

\* variant: the loop without its cap
Newton_uncapped(step(_), x0, cap) ==
    LET it[i \in 0..MaxSteps] ==
            IF i = 0 THEN [v |-> x0, prev |-> x0, n |-> 0, done |-> FALSE, failed |-> FALSE]
            ELSE LET p == it[i - 1] IN
                 IF p.done \/ p.failed THEN p
                 ELSE LET v == step(p.v) IN
                      IF v = None THEN [p EXCEPT !.failed = TRUE]
                      ELSE [v |-> Unwrap(v), prev |-> p.v, n |-> p.n + 1,
                            done |-> has_converged(p.v, Unwrap(v)), failed |-> FALSE]
    IN it[MaxSteps]

\* Ann = A * n^n for the two assets of a pool
calculate_ann(amplification) == amplification * 4

\* one Newton step on D: (Ann*S + n*D_P)*D / ((Ann - 1)*D + (n + 1)*D_P)
d_step(xp, amplification, d) ==
    LET ann == calculate_ann(amplification)
        s == xp[1] + xp[2]
        d_p == ((((d * d) \div (xp[1] * 2)) * d) \div (xp[2] * 2))
        den == (ann - 1) * d + 3 * d_p
    IN  IF den <= 0 THEN None ELSE <<((ann * s + d_p * 2) * d) \div den>>

\* variant: the solve for D is not capped
computeInvariantSolve_uncapped(xp, amplification) ==
    IF xp[1] <= 0 \/ xp[2] <= 0
    THEN [v |-> 0, prev |-> 0, n |-> 0, done |-> FALSE, failed |-> TRUE]
    ELSE Newton_uncapped(LAMBDA d : d_step(xp, amplification, d), xp[1] + xp[2], MAX_D_ITERATIONS)

\* the solve for D from the balances, with every estimate it made
computeInvariantSolve(xp, amplification) ==
    IF xp[1] <= 0 \/ xp[2] <= 0
    THEN [v |-> 0, prev |-> 0, n |-> 0, done |-> FALSE, failed |-> TRUE]
    ELSE Newton(LAMBDA d : d_step(xp, amplification, d), xp[1] + xp[2], MAX_D_ITERATIONS)

\* variant: the estimate reached at the cap is returned as the result
computeInvariant_returning_last_estimate(xp, amplification) ==
    LET r == computeInvariantSolve(xp, amplification)
    IN  IF ~r.failed THEN <<r.v>> ELSE None

\* computeInvariant(balances, A) -> D, None when the solve did not converge
computeInvariant(xp, amplification) ==
    LET r == computeInvariantSolve(xp, amplification)
    IN  IF r.done THEN <<r.v>> ELSE None

\* calculate_d::<128>: D as the tests compute it, the solve followed to its end
calculate_d(xp, amplification) ==
    LET r == Newton(LAMBDA d : d_step(xp, amplification, d), xp[1] + xp[2], MaxSteps)
    IN  IF r.done THEN <<r.v>> ELSE None

\* one Newton step on the unknown balance y: (y*y + c) / (2*y + b - D)
y_step(x, d, amplification, y) ==
    LET ann == calculate_ann(amplification)
        c == ((((d * d) \div (x * 2)) * d) \div (ann * 2))
        b == x + (d \div ann)
        den == 2 * y + b - d
    IN  IF den <= 0 THEN None ELSE <<(y * y + c) \div den>>

\* the solve for the balance of asset idx that gives D with the other balance
\* as it is in xp, with every estimate it made
solveBalanceSolve(xp, d, idx, amplification) ==
    IF xp[other(idx)] <= 0
    THEN [v |-> 0, prev |-> 0, n |-> 0, done |-> FALSE, failed |-> TRUE]
    ELSE Newton(LAMBDA y : y_step(xp[other(idx)], d, amplification, y), d, MAX_Y_ITERATIONS)

\* solveBalanceGivenD(balances, D, targetIndex, A) -> new balance
solveBalanceGivenD(xp, d, idx, amplification) ==
    LET r == solveBalanceSolve(xp, d, idx, amplification)
    IN  IF r.done THEN <<r.v>> ELSE None

\* variant: the ramp is not clamped at its ends
effectiveAmplification_unclamped(pool, block) ==
    LET span == pool.final_block - pool.initial_block
        diff == IF pool.final_amplification > pool.initial_amplification
                THEN pool.final_amplification - pool.initial_amplification
                ELSE pool.initial_amplification - pool.final_amplification
        step == IF span = 0 THEN 0 ELSE (diff * (block - pool.initial_block)) \div span
    IN  IF pool.final_amplification > pool.initial_amplification
        THEN pool.initial_amplification + step
        ELSE pool.initial_amplification - step

\* effectiveAmplification(pool, currentBlock) -> A
effectiveAmplification(pool, block) ==
    LET span == pool.final_block - pool.initial_block
        diff == IF pool.final_amplification > pool.initial_amplification
                THEN pool.final_amplification - pool.initial_amplification
                ELSE pool.initial_amplification - pool.final_amplification
        step == (diff * (block - pool.initial_block)) \div span
    IN  IF block < pool.initial_block THEN pool.initial_amplification
        ELSE IF block >= pool.final_block THEN pool.final_amplification
        ELSE IF pool.final_amplification > pool.initial_amplification
        THEN pool.initial_amplification + step
        ELSE pool.initial_amplification - step


\* a fee of fee percent on amount, rounded up
calculate_fee_amount(amount, fee) == (amount * fee + 99) \div 100

\* variant: the amount received is not rounded against the trader
calculate_out_given_in_exact(xp, idx_in, idx_out, amount_in, amplification) ==
    LET d == computeInvariant(xp, amplification) IN
    IF d = None THEN None
    ELSE LET y == solveBalanceGivenD([xp EXCEPT ![idx_in] = @ + amount_in], Unwrap(d), idx_out, amplification) IN
    IF y = None \/ xp[idx_out] < Unwrap(y) THEN None
    ELSE <<xp[idx_out] - Unwrap(y)>>

\* what a trader receives of asset idx_out for amount_in of asset idx_in:
\* D is held, the balance of idx_out is solved for, and two units of precision
\* stay in the pool, so that the estimates of the solve never cost the pool
calculate_out_given_in(xp, idx_in, idx_out, amount_in, amplification) ==
    LET d == computeInvariant(xp, amplification) IN
    IF d = None THEN None
    ELSE LET y == solveBalanceGivenD([xp EXCEPT ![idx_in] = @ + amount_in], Unwrap(d), idx_out, amplification) IN
    IF y = None \/ xp[idx_out] < Unwrap(y) + 2 THEN None
    ELSE <<xp[idx_out] - Unwrap(y) - 2>>

\* what a trader pays of asset idx_in for amount_out of asset idx_out
calculate_in_given_out(xp, idx_in, idx_out, amount_out, amplification) ==
    LET d == computeInvariant(xp, amplification) IN
    IF d = None \/ amount_out >= xp[idx_out] THEN None
    ELSE LET y == solveBalanceGivenD([xp EXCEPT ![idx_out] = @ - amount_out], Unwrap(d), idx_in, amplification) IN
    IF y = None \/ Unwrap(y) < xp[idx_in] THEN None
    ELSE <<Unwrap(y) - xp[idx_in] + 2>>

\* sharesForDeposit(balances, assetIndex, amountIn, A, totalShares):
\* totalShares * (Dafter - Dbefore) / Dbefore, rounded down
sharesForDeposit(xp, idx, amount, amplification, share_issuance) ==
    LET d0 == computeInvariant(xp, amplification)
        d1 == computeInvariant([xp EXCEPT ![idx] = @ + amount], amplification)
    IN  IF d0 = None \/ d1 = None THEN None
        ELSE IF Unwrap(d0) = 0 \/ Unwrap(d1) < Unwrap(d0) THEN None
        ELSE <<(share_issuance * (Unwrap(d1) - Unwrap(d0))) \div Unwrap(d0)>>

\* sharesRemovedForWithdrawal(balances, assetIndex, amountOut, A, totalShares,
\* withdrawFee): the fee is added to the amount removed, the shares are
\* totalShares * (Dbefore - Dafter) / Dbefore, rounded up
sharesRemovedForWithdrawal(xp, idx, amount, amplification, share_issuance, fee) ==
    LET removed == amount + calculate_fee_amount(amount, fee)
        d0 == computeInvariant(xp, amplification)
    IN  IF d0 = None \/ removed >= xp[idx] THEN None
        ELSE LET d1 == computeInvariant([xp EXCEPT ![idx] = @ - removed], amplification) IN
        IF d1 = None THEN None
        ELSE IF Unwrap(d0) = 0 \/ Unwrap(d0) < Unwrap(d1) THEN None
        ELSE <<(share_issuance * (Unwrap(d0) - Unwrap(d1)) + Unwrap(d0) - 1) \div Unwrap(d0)>>

\* variant: the net amount is not rounded against the withdrawer
withdrawOneAsset_exact(xp, shares, idx, share_issuance, amplification, fee) ==
    LET d0 == computeInvariant(xp, amplification) IN
    IF d0 = None \/ shares > share_issuance \/ share_issuance = 0 THEN None
    ELSE
    LET d1 == Unwrap(d0) - ((shares * Unwrap(d0)) \div share_issuance)
        y == solveBalanceGivenD(xp, d1, idx, amplification)
    IN
    IF y = None \/ Unwrap(y) > xp[idx] \/ Unwrap(d0) = 0 THEN None
    ELSE
    LET dy_0 == xp[idx] - Unwrap(y)
        expected(j) == IF j = idx THEN ((xp[j] * d1) \div Unwrap(d0)) - Unwrap(y)
                       ELSE xp[j] - ((xp[j] * d1) \div Unwrap(d0))
    IN
    IF expected(1) < 0 \/ expected(2) < 0 THEN None
    ELSE
    LET reduced == [j \in AssetIndexes |-> xp[j] - ((expected(j) * fee) \div 100)]
        y1 == solveBalanceGivenD(reduced, d1, idx, amplification)
    IN
    IF y1 = None THEN None
    ELSE IF reduced[idx] < Unwrap(y1) THEN None
    ELSE LET dy == reduced[idx] - Unwrap(y1) IN
    IF dy_0 < dy THEN None
    ELSE <<[amount |-> dy, fee |-> dy_0 - dy]>>

\* withdrawOneAsset(balances, deltaShares, assetIndex, totalShares, A,
\* withdrawFee) -> [amount, fee]: the ideal withdrawal solved at the reduced D,
\* the fee taken on what each balance moves away from a proportional
\* withdrawal, the net amount solved on the balances so reduced
withdrawOneAsset(xp, shares, idx, share_issuance, amplification, fee) ==
    LET d0 == computeInvariant(xp, amplification) IN
    IF d0 = None \/ shares > share_issuance \/ share_issuance = 0 THEN None
    ELSE
    LET d1 == Unwrap(d0) - ((shares * Unwrap(d0)) \div share_issuance)
        y == solveBalanceGivenD(xp, d1, idx, amplification)
    IN
    IF y = None \/ Unwrap(y) > xp[idx] \/ Unwrap(d0) = 0 THEN None
    ELSE
    LET dy_0 == xp[idx] - Unwrap(y)
        expected(j) == IF j = idx THEN ((xp[j] * d1) \div Unwrap(d0)) - Unwrap(y)
                       ELSE xp[j] - ((xp[j] * d1) \div Unwrap(d0))
    IN
    IF expected(1) < 0 \/ expected(2) < 0 THEN None
    ELSE
    LET reduced == [j \in AssetIndexes |-> xp[j] - ((expected(j) * fee) \div 100)]
        y1 == solveBalanceGivenD(reduced, d1, idx, amplification)
    IN
    IF y1 = None THEN None
    ELSE IF reduced[idx] < Unwrap(y1) + 1 THEN None
    ELSE LET dy == reduced[idx] - Unwrap(y1) - 1 IN
    IF dy_0 < dy THEN None
    ELSE <<[amount |-> dy, fee |-> dy_0 - dy]>>

\* whether amount / shares is at most the price of a share in asset idx: the
\* amount of the asset one more share is worth on the curve,
\*   x * (D*(Ann - 1) + (n + 1)*c) / (issuance * (x*Ann + c)),  c = D^(n+1) / (n^n * x1 * x2),
\* compared with both sides divided by Ann
share_price_covers(xp, amplification, idx, share_issuance, amount, shares) ==
    LET d == calculate_d(xp, amplification) IN
    IF d = None THEN FALSE
    ELSE
    LET ann == calculate_ann(amplification)
        c == ((((Unwrap(d) * Unwrap(d)) \div (xp[1] * 2)) * Unwrap(d)) \div (xp[2] * 2))
        k == xp[idx] * (amount * share_issuance - shares * Unwrap(d))
        r == shares * xp[idx] * (3 * c - Unwrap(d)) - amount * share_issuance * c
    IN  k <= r \div ann


\* the pallet's calls on a pool: [err, pool, amount], amount being what the
\* caller received (sell, remove_liquidity_one_asset), paid (buy) or was
\* minted (add_liquidity)
Failed(e, pool) == [err |-> e, pool |-> pool, amount |-> 0]

sell_in_pool(pool, block, idx_in, idx_out, amount_in, min_buy_amount) ==
    LET amplification == effectiveAmplification(pool, block)
        out == calculate_out_given_in(pool.reserves, idx_in, idx_out, amount_in, amplification)
    IN
    IF out = None THEN Failed("stableswap.Math", pool)
    ELSE LET amount_out == Unwrap(out) - calculate_fee_amount(Unwrap(out), pool.fee) IN
    IF amount_out < min_buy_amount THEN Failed("stableswap.BuyLimitNotReached", pool)
    ELSE [err |-> "Ok", amount |-> amount_out,
          pool |-> [pool EXCEPT !.reserves[idx_in] = @ + amount_in,
                                !.reserves[idx_out] = @ - amount_out]]

buy_in_pool(pool, block, idx_out, idx_in, amount_out, max_sell_amount) ==
    LET amplification == effectiveAmplification(pool, block)
        cost == calculate_in_given_out(pool.reserves, idx_in, idx_out, amount_out, amplification)
    IN
    IF cost = None THEN Failed("stableswap.Math", pool)
    ELSE LET amount_in == Unwrap(cost) + calculate_fee_amount(Unwrap(cost), pool.fee) IN
    IF amount_in > max_sell_amount THEN Failed("stableswap.SellLimitExceeded", pool)
    ELSE [err |-> "Ok", amount |-> amount_in,
          pool |-> [pool EXCEPT !.reserves[idx_in] = @ + amount_in,
                                !.reserves[idx_out] = @ - amount_out]]

add_liquidity_to_pool(pool, block, idx, amount) ==
    LET amplification == effectiveAmplification(pool, block)
        shares == sharesForDeposit(pool.reserves, idx, amount, amplification, pool.issuance)
    IN
    IF shares = None THEN Failed("stableswap.Math", pool)
    ELSE [err |-> "Ok", amount |-> Unwrap(shares),
          pool |-> [pool EXCEPT !.reserves[idx] = @ + amount,
                                !.issuance = @ + Unwrap(shares),
                                !.held = @ + Unwrap(shares)]]

remove_liquidity_one_asset_from_pool(pool, block, idx, share_amount, min_amount_out) ==
    LET amplification == effectiveAmplification(pool, block)
        w == withdrawOneAsset(pool.reserves, share_amount, idx, pool.issuance, amplification, pool.withdraw_fee)
    IN
    IF share_amount = 0 THEN Failed("stableswap.InvalidAssetAmount", pool)
    ELSE IF share_amount > pool.held THEN Failed("stableswap.InsufficientShares", pool)
    ELSE IF w = None THEN Failed("stableswap.Math", pool)
    ELSE IF Unwrap(w).amount < min_amount_out THEN Failed("stableswap.MinimumAmountNotReached", pool)
    ELSE [err |-> "Ok", amount |-> Unwrap(w).amount,
          pool |-> [pool EXCEPT !.reserves[idx] = @ - Unwrap(w).amount,
                                !.issuance = @ - share_amount,
                                !.held = @ - share_amount]]

\* The engine's use of the solver: the share delta of a trade between
\* subpools, and Error::Math when the math gives none.
\* variant: no share delta counts as a delta of zero
delta_u_for_amount_in_or_zero(xp, idx_in, amount_in, amplification, share_issuance_in) ==
    LET r == sharesForDeposit(xp, idx_in, amount_in, amplification, share_issuance_in)
    IN  IF r = None THEN [err |-> "Ok", delta_u |-> 0]
        ELSE [err |-> "Ok", delta_u |-> Unwrap(r)]

\* calculate_shares_for_amount(..).ok_or(Error::Math) of resolve_sell_between_subpools
delta_u_for_amount_in(xp, idx_in, amount_in, amplification, share_issuance_in) ==
    LET r == sharesForDeposit(xp, idx_in, amount_in, amplification, share_issuance_in)
    IN  IF r = None THEN [err |-> "subpools.Math", delta_u |-> 0]
        ELSE [err |-> "Ok", delta_u |-> Unwrap(r)]

\* calculate_shares_removed(..).ok_or(Error::Math) of resolve_buy_between_subpools
delta_u_for_amount_out(xp, idx_out, amount_out, amplification, share_issuance_out, withdraw_fee) ==
    LET r == sharesRemovedForWithdrawal(xp, idx_out, amount_out, amplification, share_issuance_out, withdraw_fee)
    IN  IF r = None THEN [err |-> "subpools.Math", delta_u |-> 0]
        ELSE [err |-> "Ok", delta_u |-> Unwrap(r)]


(* --------------------- pallet_stableswap: the calls ---------------------- *)
\* A behaviour starts from a pool as the tests create it (equal reserves, the
\* shares of the initial liquidity with its provider) and makes up to MaxCalls
\* calls; liquidity is added by the first call and removed by the one after
\* it. A solve or a share delta of the engine is computed on the pool as it
\* stands and ends the behaviour; so does a failed call.
MaxReserve == 50
MaxTrade == 20
MaxBlock == 3
MaxCalls == 2

StableReserves == {20, MaxReserve}
StableAmounts == {5, MaxTrade}
DepositAmounts == {MaxTrade, MaxReserve}
\* <<trade fee, withdraw fee>>, percent
StableFees == {<<0, 0>>, <<10, 10>>}
\* the amplification ramps: none, and one under way from block 1 to MaxBlock
AmplificationRamps ==
    {[initial_amplification |-> 2, final_amplification |-> 2, initial_block |-> 0, final_block |-> 0],
     [initial_amplification |-> 100, final_amplification |-> 100, initial_block |-> 0, final_block |-> 0],
     [initial_amplification |-> 100, final_amplification |-> 10000, initial_block |-> 1, final_block |-> MaxBlock],
     [initial_amplification |-> 10000, final_amplification |-> 2, initial_block |-> 1, final_block |-> MaxBlock]}

\* the engine's variables while another pallet is followed on its own
SubpoolsIdle ==
    /\ omniAssets = << >> /\ hubTradable = {} /\ positions = << >> /\ nextPositionId = 1
    /\ pools = << >> /\ bal = << >> /\ issuance = << >> /\ migratedAssets = << >>
    /\ subpools = {} /\ last = << >> /\ phase = "idle"

StableInit ==
    /\ SubpoolsIdle
    /\ DcaIdle
    /\ RateLimiterIdle
    /\ blockNumber = 0
    /\ \E r \in StableReserves, ramp \in AmplificationRamps, f \in StableFees :
        stablePool = [reserves |-> <<r, r>>, issuance |-> 2 * r, held |-> 0,
                      initial_amplification |-> ramp.initial_amplification,
                      final_amplification |-> ramp.final_amplification,
                      initial_block |-> ramp.initial_block,
                      final_block |-> ramp.final_block,
                      fee |-> f[1], withdraw_fee |-> f[2]]
    /\ lastStable = [op |-> "genesis", idx |-> 1, amount |-> 0, err |-> "Ok", result |-> 0,
                     amplification |-> 0, pre |-> << >>, solve |-> << >>, before |-> << >>, n |-> 0]

StableCalls == {"sell", "buy", "add_liquidity", "remove_liquidity_one_asset"}
Calling == lastStable.op \in StableCalls \cup {"genesis"} /\ lastStable.err = "Ok" /\ lastStable.n < MaxCalls
Amplification == effectiveAmplification(stablePool, blockNumber)

\* the record of a call, with the call before it
StableRecord(op, idx, amount, err, result, solve) ==
    [op |-> op, idx |-> idx, amount |-> amount, err |-> err, result |-> result,
     amplification |-> Amplification, pre |-> stablePool, solve |-> solve,
     before |-> [lastStable EXCEPT !.before = << >>], n |-> lastStable.n + 1]

StableSell ==
    /\ Calling
    /\ \E idx_in \in AssetIndexes, amount \in StableAmounts :
        \E r \in {sell_in_pool(stablePool, blockNumber, idx_in, other(idx_in), amount, 0)} :
            /\ stablePool' = r.pool
            /\ lastStable' = StableRecord("sell", idx_in, amount, r.err, r.amount, << >>)
    /\ UNCHANGED <<subpoolsVars, rateLimiterVars, blockNumber, dcaVars>>

StableBuy ==
    /\ Calling
    /\ \E idx_in \in AssetIndexes, amount \in StableAmounts :
        \E r \in {buy_in_pool(stablePool, blockNumber, other(idx_in), idx_in, amount, 4 * MaxReserve)} :
            /\ stablePool' = r.pool
            /\ lastStable' = StableRecord("buy", idx_in, amount, r.err, r.amount, << >>)
    /\ UNCHANGED <<subpoolsVars, rateLimiterVars, blockNumber, dcaVars>>

StableAddLiquidity ==
    /\ Calling
    /\ lastStable.op = "genesis"
    /\ \E idx \in AssetIndexes, amount \in DepositAmounts :
        \E r \in {add_liquidity_to_pool(stablePool, blockNumber, idx, amount)} :
            /\ stablePool' = r.pool
            /\ lastStable' = StableRecord("add_liquidity", idx, amount, r.err, r.amount, << >>)
    /\ UNCHANGED <<subpoolsVars, rateLimiterVars, blockNumber, dcaVars>>

StableRemoveLiquidityOneAsset ==
    /\ Calling
    /\ lastStable.op = "add_liquidity"
    /\ \E idx \in AssetIndexes :
        \E r \in {remove_liquidity_one_asset_from_pool(stablePool, blockNumber, idx, stablePool.held, 0)} :
            /\ stablePool' = r.pool
            /\ lastStable' = StableRecord("remove_liquidity_one_asset", idx, stablePool.held,
                                          r.err, r.amount, << >>)
    /\ UNCHANGED <<subpoolsVars, rateLimiterVars, blockNumber, dcaVars>>

\* the solve for D on the pool's reserves, as they are or with a deposit added
CalculateD ==
    /\ Calling
    /\ \E idx \in AssetIndexes, amount \in {0} \cup DepositAmounts :
        LET xp == [stablePool.reserves EXCEPT ![idx] = @ + amount]
        IN  lastStable' = StableRecord("calculate_d", idx, amount, "Ok",
                                       computeInvariant(xp, Amplification),
                                       computeInvariantSolve(xp, Amplification))
    /\ UNCHANGED <<subpoolsVars, rateLimiterVars, blockNumber, stablePool, dcaVars>>

\* the solve for the balance of one asset after amount of the other came in
CalculateY ==
    /\ Calling
    /\ computeInvariant(stablePool.reserves, Amplification) # None
    /\ \E idx_in \in AssetIndexes, amount \in StableAmounts :
        LET d == Unwrap(computeInvariant(stablePool.reserves, Amplification))
            xp == [stablePool.reserves EXCEPT ![idx_in] = @ + amount]
        IN  lastStable' = StableRecord("calculate_y", idx_in, amount, "Ok",
                                       solveBalanceGivenD(xp, d, other(idx_in), Amplification),
                                       solveBalanceSolve(xp, d, other(idx_in), Amplification))
    /\ UNCHANGED <<subpoolsVars, rateLimiterVars, blockNumber, stablePool, dcaVars>>

\* the share delta the engine computes for an amount sold into the pool
SharesForAmount ==
    /\ Calling
    /\ \E idx_in \in AssetIndexes, amount \in StableAmounts :
        \E r \in {delta_u_for_amount_in(stablePool.reserves, idx_in, amount, Amplification, stablePool.issuance)} :
            lastStable' = StableRecord("calculate_shares_for_amount", idx_in, amount, r.err, r.delta_u, << >>)
    /\ UNCHANGED <<subpoolsVars, rateLimiterVars, blockNumber, stablePool, dcaVars>>

\* the share delta the engine computes for an amount bought out of the pool
SharesRemoved ==
    /\ Calling
    /\ \E idx_out \in AssetIndexes, amount \in StableAmounts :
        \E r \in {delta_u_for_amount_out(stablePool.reserves, idx_out, amount, Amplification,
                                         stablePool.issuance, stablePool.withdraw_fee)} :
            lastStable' = StableRecord("calculate_shares_removed", idx_out, amount, r.err, r.delta_u, << >>)
    /\ UNCHANGED <<subpoolsVars, rateLimiterVars, blockNumber, stablePool, dcaVars>>

NextBlock ==
    /\ blockNumber < MaxBlock
    /\ Calling
    /\ blockNumber' = blockNumber + 1
    /\ UNCHANGED <<subpoolsVars, rateLimiterVars, stableswapVars, dcaVars>>

StableNext ==
    \/ StableSell \/ StableBuy \/ StableAddLiquidity \/ StableRemoveLiquidityOneAsset
    \/ CalculateD \/ CalculateY \/ SharesForAmount \/ SharesRemoved \/ NextBlock

StableSpec == StableInit /\ [][StableNext]_vars

(* ------------------------------- pallet_dca ------------------------------ *)
(* The recurring-order scheduler as its tests (pallets/dca/src/tests/       *)
(* resume.rs) and benchmarks drive it: schedules with an owner, the list of *)
(* schedule ids planned for each block, the suspended schedules. Where the  *)
(* tests do not tell which of two failed checks answers, either may.        *)
MaxSchedules == 2
MaxDcaBlock == 3

BOB == "BOB"
DcaAccounts == {ALICE, BOB}
DcaBlocks == 1..(MaxDcaBlock + 1)
ScheduleIds == 1..MaxSchedules

DcaInit ==
    /\ SubpoolsIdle
    /\ StableswapIdle
    /\ RateLimiterIdle
    /\ blockNumber = 1
    /\ scheduleOwnership = << >>
    /\ suspended = {}
    /\ scheduleIdsPerBlock = [b \in DcaBlocks |-> << >>]
    /\ lastDca = [op |-> "genesis", who |-> ALICE, id |-> 0, block |-> None, err |-> "Ok", pre |-> << >>]

DcaState == [blockNumber |-> blockNumber, scheduleOwnership |-> scheduleOwnership,
             suspended |-> suspended, scheduleIdsPerBlock |-> scheduleIdsPerBlock]
DcaRecord(op, who, id, block, err) ==
    [op |-> op, who |-> who, id |-> id, block |-> block, err |-> err, pre |-> DcaState]

\* variant: with no block given the schedule is planned for the current block
planned_block_current(next_execution_block) ==
    IF next_execution_block = None THEN blockNumber ELSE Unwrap(next_execution_block)

\* the block a schedule is planned for: the one given, or the next one
planned_block(next_execution_block) ==
    IF next_execution_block = None THEN blockNumber + 1 ELSE Unwrap(next_execution_block)

\* the list of a block with a schedule id taken out
without_schedule(ids, schedule_id) == SelectSeq(ids, LAMBDA x : x # schedule_id)

\* variant: every account passes for the owner
is_schedule_owner_or_not(who, schedule_id) == TRUE

\* the caller owns the schedule
is_schedule_owner(who, schedule_id) == scheduleOwnership[schedule_id] = who

\* variant: the current block passes for a future one
is_in_future_or_now(next_execution_block) ==
    next_execution_block = None \/ Unwrap(next_execution_block) >= blockNumber

\* the block given, if one is, is after the current block
is_in_future(next_execution_block) ==
    next_execution_block = None \/ Unwrap(next_execution_block) > blockNumber

\* the checks of resume that fail for the call
resume_failures(who, schedule_id, next_execution_block) ==
    {e \in {"NotScheduleOwner", "BlockNumberIsNotInFuture"} :
        \/ e = "NotScheduleOwner" /\ ~is_schedule_owner(who, schedule_id)
        \/ e = "BlockNumberIsNotInFuture" /\ ~is_in_future(next_execution_block)}

\* schedule(origin, schedule, start_execution_block): the next schedule id,
\* owned by the caller, planned at the end of the block's list
DcaSchedule ==
    /\ Cardinality(DOMAIN scheduleOwnership) < MaxSchedules
    /\ \E who \in DcaAccounts, start \in {None} \cup {<<b>> : b \in DcaBlocks} :
        LET schedule_id == Cardinality(DOMAIN scheduleOwnership) + 1
            block == planned_block(start)
        IN  /\ block \in DcaBlocks
            /\ block > blockNumber
            /\ scheduleOwnership' = [i \in 1..schedule_id |->
                                        IF i = schedule_id THEN who ELSE scheduleOwnership[i]]
            /\ scheduleIdsPerBlock' = [scheduleIdsPerBlock EXCEPT ![block] = Append(@, schedule_id)]
            /\ lastDca' = DcaRecord("schedule", who, schedule_id, start, "Ok")
    /\ UNCHANGED <<subpoolsVars, rateLimiterVars, blockNumber, stableswapVars, suspended>>

\* pause(origin, schedule_id, next_execution_block) by the owner, for the
\* block the schedule is planned for
DcaPause ==
    /\ \E schedule_id \in DOMAIN scheduleOwnership, block \in DcaBlocks :
        /\ schedule_id \notin suspended
        /\ \E i \in DOMAIN scheduleIdsPerBlock[block] : scheduleIdsPerBlock[block][i] = schedule_id
        /\ scheduleIdsPerBlock' = [scheduleIdsPerBlock EXCEPT ![block] = without_schedule(@, schedule_id)]
        /\ suspended' = suspended \cup {schedule_id}
        /\ lastDca' = DcaRecord("pause", scheduleOwnership[schedule_id], schedule_id, <<block>>, "Ok")
    /\ UNCHANGED <<subpoolsVars, rateLimiterVars, blockNumber, stableswapVars, scheduleOwnership>>

\* resume(origin, schedule_id, next_execution_block): by the owner on a
\* suspended schedule, or by another account
DcaResume ==
    /\ \E who \in DcaAccounts, schedule_id \in DOMAIN scheduleOwnership,
          next \in {None} \cup {<<b>> : b \in DcaBlocks} :
        /\ who = scheduleOwnership[schedule_id] => schedule_id \in suspended
        /\ planned_block(next) \in DcaBlocks
        /\ IF resume_failures(who, schedule_id, next) # {}
           THEN /\ \E e \in resume_failures(who, schedule_id, next) :
                        lastDca' = DcaRecord("resume", who, schedule_id, next, e)
                /\ UNCHANGED <<suspended, scheduleIdsPerBlock>>
           ELSE /\ suspended' = suspended \ {schedule_id}
                /\ scheduleIdsPerBlock' = [scheduleIdsPerBlock EXCEPT
                                              ![planned_block(next)] = Append(@, schedule_id)]
                /\ lastDca' = DcaRecord("resume", who, schedule_id, next, "Ok")
    /\ UNCHANGED <<subpoolsVars, rateLimiterVars, blockNumber, stableswapVars, scheduleOwnership>>

\* set_block_number(n) of the tests: the chain moves on
SetBlockNumber ==
    /\ blockNumber < MaxDcaBlock
    /\ blockNumber' = blockNumber + 1
    /\ lastDca' = DcaRecord("set_block_number", ALICE, 0, <<blockNumber + 1>>, "Ok")
    /\ UNCHANGED <<subpoolsVars, rateLimiterVars, stableswapVars, scheduleOwnership, suspended, scheduleIdsPerBlock>>

DcaNext == DcaSchedule \/ DcaPause \/ DcaResume \/ SetBlockNumber

DcaSpec == DcaInit /\ [][DcaNext]_vars

(* ------------------------------- claims --------------------------------- *)
\* the routines of the trade-resolution engine
EngineHandlers ==
    {"resolve_buy_between_subpools", "resolve_sell_between_subpools",
     "resolve_mixed_trade_iso_out_given_stable_in",
     "resolve_mixed_trade_stable_out_given_asset_in",
     "resolve_mixed_trade_stable_out_given_hub_asset_in",
     "resolve_mixed_trade_stable_in_given_asset_out",
     "resolve_mixed_trade_iso_in_given_stable_out",
     "resolve_mixed_trade_hub_asset_in_given_stable_out"}
EngineTrade == last.op \in Trades /\ last.handler \in EngineHandlers
\* what the caller paid of asset_in and received of asset_out in the last trade
Debited == last.pre.bal[ALICE][last.args.asset_in] - bal[ALICE][last.args.asset_in]
Credited == bal[ALICE][last.args.asset_out] - last.pre.bal[ALICE][last.args.asset_out]

\* C1: a sell or buy resolved by the engine that returns an error leaves every
\* piece of persisted state (balances, issuances, hub-pool asset states,
\* stable pools, both registries) exactly as it was before the call.
C1_EngineErrorKeepsState ==
    (EngineTrade /\ last.err # "Ok") => Storage = last.pre

\* an engine trade failed after it had already moved tokens, and the storage
\* is the one before the call
C1_Witness ==
    /\ EngineTrade
    /\ last.err = "tokens.BalanceTooLow"
    /\ last.wrote
    /\ Storage = last.pre

\* the case of a pair, read from the migration registry alone
RegistryCase(st, asset_in, asset_out) ==
    LET ins == asset_in \in DOMAIN st.migratedAssets
        outs == asset_out \in DOMAIN st.migratedAssets
    IN  IF ~ins /\ ~outs THEN "native"
        ELSE IF ins /\ outs
        THEN IF st.migratedAssets[asset_in][1] = st.migratedAssets[asset_out][1]
             THEN "same_subpool" ELSE "between_subpools"
        ELSE IF ins THEN "stable_in"
        ELSE IF asset_in = HubAssetId THEN "stable_out_hub_asset_in"
        ELSE "stable_out"

\* the case each handler serves
HandlerCase ==
    [h \in EngineHandlers \cup {"omnipool_sell", "omnipool_buy", "stableswap_sell", "stableswap_buy"} |->
        CASE h \in {"omnipool_sell", "omnipool_buy"} -> "native"
          [] h \in {"stableswap_sell", "stableswap_buy"} -> "same_subpool"
          [] h \in {"resolve_sell_between_subpools", "resolve_buy_between_subpools"} -> "between_subpools"
          [] h \in {"resolve_mixed_trade_iso_out_given_stable_in",
                    "resolve_mixed_trade_stable_in_given_asset_out"} -> "stable_in"
          [] h \in {"resolve_mixed_trade_stable_out_given_asset_in",
                    "resolve_mixed_trade_iso_in_given_stable_out"} -> "stable_out"
          [] OTHER -> "stable_out_hub_asset_in"]
SellHandlers ==
    {"omnipool_sell", "stableswap_sell", "resolve_sell_between_subpools",
     "resolve_mixed_trade_iso_out_given_stable_in",
     "resolve_mixed_trade_stable_out_given_asset_in",
     "resolve_mixed_trade_stable_out_given_hub_asset_in"}

\* C2: sell and buy pick the handler from the migration-registry entries of
\* asset_in and asset_out only, and the same case for the same pair: neither
\* migrated -> the hub pool's own trade; both in one pool -> that stable
\* pool's own trade; both in different pools -> the between-subpools
\* resolver; exactly one migrated -> the mixed resolver, in its hub-asset
\* variant exactly when the native asset_in is the hub asset.
C2_RoutingFollowsRegistry ==
    last.op \in Trades =>
        /\ HandlerCase[last.handler] = RegistryCase(last.pre, last.args.asset_in, last.args.asset_out)
        /\ (last.handler \in SellHandlers) = (last.op = "sell")

\* a buy of a migrated asset for the hub asset went to the hub-asset variant
C2_Witness ==
    /\ last.op = "buy"
    /\ last.args.asset_in = HubAssetId
    /\ last.args.asset_out \in DOMAIN last.pre.migratedAssets
    /\ last.handler = "resolve_mixed_trade_hub_asset_in_given_stable_out"
    /\ last.err = "Ok"

\* C3: in every buy resolved by the engine, the hub-asset case included, the
\* amount of asset_in debited from the caller is at most max_sell_amount, and
\* a call failing with LimitExceeded has made no transfer and no state update.
C3_BuyDebitsAtMostLimit ==
    /\ (EngineTrade /\ last.op = "buy" /\ last.err = "Ok") => Debited <= last.args.limit
    /\ (EngineTrade /\ last.op = "buy" /\ last.err = "subpools.LimitExceeded")
            => (~last.wrote /\ Storage = last.pre)

\* C4: in every sell resolved by the engine the amount of asset_out credited
\* to the caller is at least min_buy_amount, and a call failing with
\* LimitNotReached has made no transfer and no state update.
C4_SellCreditsAtLeastLimit ==
    /\ (EngineTrade /\ last.op = "sell" /\ last.err = "Ok") => Credited >= last.args.limit
    /\ (EngineTrade /\ last.op = "sell" /\ last.err = "subpools.LimitNotReached")
            => (~last.wrote /\ Storage = last.pre)

\* a sell between two subpools credited exactly the limit
C4_Witness ==
    /\ last.op = "sell"
    /\ last.handler = "resolve_sell_between_subpools"
    /\ last.err = "Ok"
    /\ Credited = last.args.limit
    /\ last.args.limit = MaxAmount

\* the tradability flags of an asset in the pool that owns it
OwnerFlags(st, asset) ==
    IF asset = HubAssetId THEN st.hubTradable
    ELSE IF asset \in DOMAIN st.migratedAssets
    THEN st.pools[st.migratedAssets[asset][1]].tradable[asset]
    ELSE st.omniAssets[asset].tradable
NotAllowedErrors == {"subpools.NotAllowed", "omnipool.NotAllowed"}

\* C5: a sell or buy resolved by the engine succeeds only if asset_in carries
\* SELL and asset_out carries BUY in the pool that owns it (the stable pool
\* for a migrated asset, the hub pool for a native one, the hub-asset flag for
\* the hub asset); with either flag missing the call fails with NotAllowed
\* before any balance or state is changed.
C5_FlagsGuardTrades ==
    EngineTrade =>
        LET flags_ok == /\ SELL \in OwnerFlags(last.pre, last.args.asset_in)
                        /\ BUY \in OwnerFlags(last.pre, last.args.asset_out)
        IN  /\ last.err = "Ok" => flags_ok
            /\ ~flags_ok => (last.err \in NotAllowedErrors /\ ~last.wrote /\ Storage = last.pre)

\* a sell of a migrated asset whose stable pool withholds SELL was refused
C5_Witness ==
    /\ EngineTrade
    /\ last.op = "sell"
    /\ last.args.asset_in \in DOMAIN last.pre.migratedAssets
    /\ SELL \notin OwnerFlags(last.pre, last.args.asset_in)
    /\ BUY \in OwnerFlags(last.pre, last.args.asset_out)
    /\ last.err = "subpools.NotAllowed"

\* C6: a sell or buy whose asset_out is the hub asset and whose asset_in is a
\* migrated asset fails with NotAllowed whatever the amounts, limits and
\* flags, and changes no state.
C6_HubAssetNeverBought ==
    (/\ last.op \in Trades
     /\ last.args.asset_out = HubAssetId
     /\ last.args.asset_in \in DOMAIN last.pre.migratedAssets)
        => (last.err \in NotAllowedErrors /\ ~last.wrote /\ Storage = last.pre)

\* a buy of the hub asset for a migrated asset that carries every flag
C6_Witness ==
    /\ last.op = "buy"
    /\ last.args.asset_out = HubAssetId
    /\ last.args.asset_in \in DOMAIN last.pre.migratedAssets
    /\ OwnerFlags(last.pre, last.args.asset_in) = AllFlags
    /\ last.err = "omnipool.NotAllowed"

\* the last call was remove_liquidity with no withdraw asset on a position
\* whose asset was migrated, or is a subpool's share asset
RemovalWithoutWithdrawAsset ==
    /\ last.op = "remove_liquidity"
    /\ last.args.asset = <<>>
    /\ has_position(last.pre, last.args.position_id)
    /\ LET a == last.pre.positions[last.args.position_id].asset_id
       IN  a \in DOMAIN last.pre.migratedAssets \/ a \in last.pre.subpools

\* the position as the hub pool sees it once a pending conversion is done
ConvertedPosition ==
    LET position == last.pre.positions[last.args.position_id]
        mig == migrated_assets(last.pre, position.asset_id)
    IN  IF IsSome(mig) THEN convert_position(Unwrap(mig)[1], Unwrap(mig)[2], position)
        ELSE <<position>>

\* the hub pool's own removal of share_amount from that position succeeds
HubRemovalSucceeds ==
    /\ IsSome(ConvertedPosition)
    /\ LET s == [last.pre EXCEPT !.positions[last.args.position_id] = Unwrap(ConvertedPosition)]
       IN  omnipool_remove_liquidity(s, ALICE, last.args.position_id, last.args.share_amount).err = "Ok"

\* C7 as claimed: remove_liquidity on a position whose asset is migrated (or
\* is the share asset), called with no withdraw asset, fails with
\* WithdrawAssetNotSpecified.
C7_AlwaysWithdrawAssetNotSpecified ==
    RemovalWithoutWithdrawAsset => last.err = "subpools.WithdrawAssetNotSpecified"

\* C7 as amended: such a call never succeeds; it fails with
\* WithdrawAssetNotSpecified when the conversion of the position and the hub
\* pool's own removal of share_amount succeed, and with the error of the
\* failing step otherwise.
C7_RemovalWithoutWithdrawAssetFails ==
    RemovalWithoutWithdrawAsset =>
        /\ last.err # "Ok"
        /\ HubRemovalSucceeds <=> last.err = "subpools.WithdrawAssetNotSpecified"

\* a position already converted to the share asset, removed within its shares
C7_Witness ==
    /\ RemovalWithoutWithdrawAsset
    /\ last.pre.positions[last.args.position_id].asset_id \in last.pre.subpools
    /\ HubRemovalSucceeds
    /\ last.err = "subpools.WithdrawAssetNotSpecified"

\* C8: when remove_liquidity fails with WithdrawAssetNotSpecified nothing is
\* partially applied: the stored position is not rewritten to the share
\* asset, no shares leave the hub pool, the caller's balances are unchanged.
C8_WithdrawAssetNotSpecifiedKeepsState ==
    (last.op = "remove_liquidity" /\ last.err = "subpools.WithdrawAssetNotSpecified") =>
        /\ positions = last.pre.positions
        /\ omniAssets = last.pre.omniAssets
        /\ bal = last.pre.bal
        /\ Storage = last.pre

\* the failing call had converted a position of a migrated asset and removed
\* its shares before it returned the error
C8_Witness ==
    /\ last.op = "remove_liquidity"
    /\ last.err = "subpools.WithdrawAssetNotSpecified"
    /\ last.wrote
    /\ positions[last.args.position_id].asset_id \in DOMAIN migratedAssets
    /\ Storage = last.pre

\* C9: after a successful create_subpool(share_asset, asset_a, asset_b):
\* asset_a and asset_b are no longer hub-pool assets, the share asset is one,
\* the migration registry maps both to the new pool id, the subpool registry
\* contains it, and the stable pool's account holds exactly the reserves the
\* two assets had in the hub pool.
C9_CreateSubpoolPostconditions ==
    (last.op = "create_subpool" /\ last.err = "Ok") =>
        LET share_asset == last.args.share_asset
            asset_a == last.args.asset_a
            asset_b == last.args.asset_b
        IN  /\ ~has_asset(Storage, asset_a) /\ ~has_asset(Storage, asset_b)
            /\ has_asset(Storage, share_asset)
            /\ {asset_a, asset_b} \subseteq DOMAIN migratedAssets
            /\ migratedAssets[asset_a][1] = share_asset
            /\ migratedAssets[asset_b][1] = share_asset
            /\ share_asset \in subpools
            /\ bal[pool_account(share_asset)][asset_a] = last.pre.omniAssets[asset_a].reserve
            /\ bal[pool_account(share_asset)][asset_b] = last.pre.omniAssets[asset_b].reserve

\* a second subpool was created next to the first
C9_Witness ==
    /\ last.op = "create_subpool"
    /\ last.err = "Ok"
    /\ last.pre.subpools # {}
    /\ last.args.share_asset \notin last.pre.subpools
    /\ bal[pool_account(last.args.share_asset)][last.args.asset_a] > 0

\* C10: create_subpool fails, and changes no persisted state, when asset_a or
\* asset_b is not an asset of the hub pool (never added, or already migrated).
C10_CreateSubpoolNeedsHubAssets ==
    (/\ last.op = "create_subpool"
     /\ ~(has_asset(last.pre, last.args.asset_a) /\ has_asset(last.pre, last.args.asset_b)))
        => (last.err # "Ok" /\ Storage = last.pre)

\* create_subpool was refused for an asset that was never added
C10_Witness ==
    /\ last.op = "create_subpool"
    /\ has_asset(last.pre, last.args.asset_a)
    /\ last.args.asset_b \notin DOMAIN last.pre.omniAssets \cup DOMAIN last.pre.migratedAssets
    /\ last.err = "omnipool.AssetNotFound"
    /\ Storage = last.pre

\* C11: migrate_asset_to_subpool on a pool id that is not in the subpool
\* registry fails with SubpoolNotFound and changes nothing, whether or not
\* the asset to migrate is known to the hub pool.
C11_UnknownSubpoolRejected ==
    (last.op = "migrate_asset_to_subpool" /\ last.args.pool_id \notin last.pre.subpools)
        => /\ last.err = "subpools.SubpoolNotFound"
           /\ ~last.wrote
           /\ Storage = last.pre

\* an unregistered pool id together with an asset the hub pool does not know
C11_Witness ==
    /\ last.op = "migrate_asset_to_subpool"
    /\ last.args.pool_id \notin last.pre.subpools
    /\ ~has_asset(last.pre, last.args.asset_id)
    /\ last.err = "subpools.SubpoolNotFound"

\* the last call was a migration that went through
MigrationSucceeded == last.op = "migrate_asset_to_subpool" /\ last.err = "Ok"

\* C12: after a successful migrate_asset_to_subpool the asset is no longer a
\* hub-pool asset and is a member of the stable pool, its whole hub-pool
\* reserve has moved from the hub-pool account to the pool account, the
\* registry maps it to the pool, and the share asset's hub-pool state was
\* updated by a delta: no hub-pool asset was inserted.
C12_MigratePostconditions ==
    MigrationSucceeded =>
        LET a == last.args.asset_id
            p == last.args.pool_id
            old == last.pre.omniAssets[a]
            share == last.pre.omniAssets[p]
        IN /\ ~has_asset(Storage, a)
           /\ has_pool(Storage, p) /\ find_asset(get_pool(Storage, p), a)
           /\ bal[OmnipoolAccount][a] = last.pre.bal[OmnipoolAccount][a] - old.reserve
           /\ bal[pool_account(p)][a] = last.pre.bal[pool_account(p)][a] + old.reserve
           /\ a \in DOMAIN migratedAssets /\ migratedAssets[a][1] = p
           /\ DOMAIN omniAssets = DOMAIN last.pre.omniAssets \ {a}
           /\ omniAssets[p].hub_reserve = share.hub_reserve + old.hub_reserve
           /\ omniAssets[p].reserve >= share.reserve
           /\ omniAssets[p].shares >= share.shares
           /\ omniAssets[p].tradable = share.tradable
           /\ \A o \in DOMAIN omniAssets \ {p} : omniAssets[o] = last.pre.omniAssets[o]

\* an asset with a positive reserve was migrated
C12_Witness ==
    /\ MigrationSucceeded
    /\ last.pre.omniAssets[last.args.asset_id].reserve > 0
    /\ omniAssets[last.args.pool_id].hub_reserve > last.pre.omniAssets[last.args.pool_id].hub_reserve

\* the asset is a hub-pool asset: its reserve lies in the hub-pool account, no
\* stable pool lists it and the registry has no record of it
InHubPool(st, a) ==
    /\ has_asset(st, a)
    /\ st.bal[OmnipoolAccount][a] = st.omniAssets[a].reserve
    /\ a \notin DOMAIN st.migratedAssets
    /\ \A p \in DOMAIN st.pools : ~find_asset(st.pools[p], a)

\* the asset is a member of the stable pool its registry record names, and
\* the hub pool does not know it
InSubpool(st, a) ==
    /\ ~has_asset(st, a)
    /\ a \in DOMAIN st.migratedAssets
    /\ LET p == st.migratedAssets[a][1]
       IN has_pool(st, p) /\ find_asset(st.pools[p], a) /\ p \in st.subpools

\* the share asset the last migration call names
CallShareAsset ==
    IF last.op = "create_subpool" THEN last.args.share_asset ELSE last.args.pool_id

MigrationCalls == {"create_subpool", "migrate_asset_to_subpool"}

\* C13: when create_subpool or migrate_asset_to_subpool has returned, with
\* success or with any error, every asset that was a hub-pool asset before
\* the call is either still a hub-pool asset with no record (untouched unless
\* it is the share asset of the call), or a stable-pool member whose whole reserve went from the
\* hub-pool account to the pool account and which has a record; nothing in
\* between is observable.
C13_NoPartialMigration ==
    last.op \in MigrationCalls =>
        \A a \in {x \in DOMAIN last.pre.omniAssets : InHubPool(last.pre, x)} :
            \/ /\ InHubPool(Storage, a)
               /\ a # CallShareAsset =>
                    /\ omniAssets[a] = last.pre.omniAssets[a]
                    /\ \A w \in Accounts : bal[w][a] = last.pre.bal[w][a]
            \/ /\ InSubpool(Storage, a)
               /\ LET p == migratedAssets[a][1]
                      reserve == last.pre.omniAssets[a].reserve
                  IN /\ bal[OmnipoolAccount][a] = last.pre.bal[OmnipoolAccount][a] - reserve
                     /\ bal[pool_account(p)][a] = last.pre.bal[pool_account(p)][a] + reserve

\* migrate_asset_to_subpool fails with Math after it removed the asset from
\* the hub pool
C13_Witness ==
    /\ last.op = "migrate_asset_to_subpool"
    /\ last.err = "subpools.Math"
    /\ last.wrote
    /\ InHubPool(Storage, last.args.asset_id)

\* C14: a migration record is created once; no later call modifies or removes
\* the entry the migration registry holds for an asset id.
C14_RecordsImmutable ==
    \A a \in DOMAIN last.pre.migratedAssets :
        /\ a \in DOMAIN migratedAssets
        /\ migratedAssets[a] = last.pre.migratedAssets[a]

\* a successful remove_liquidity on a position that referenced a migrated
\* asset when the call was made
RemovalOfMigratedPosition ==
    /\ last.op = "remove_liquidity"
    /\ last.err = "Ok"
    /\ has_position(last.pre, last.args.position_id)
    /\ last.pre.positions[last.args.position_id].asset_id \in DOMAIN last.pre.migratedAssets

\* C15: remove_liquidity on a position that references a migrated asset
\* converts the stored position before removing: its asset becomes the share
\* asset of the record, its amount, shares and price are rescaled with the
\* record's details, its owner stays; the removal then takes share_amount of
\* the rescaled shares from the share asset.
C15_RemovalConvertsPosition ==
    RemovalOfMigratedPosition =>
        LET id == last.args.position_id
            old == last.pre.positions[id]
            pool_id == last.pre.migratedAssets[old.asset_id][1]
            details == last.pre.migratedAssets[old.asset_id][2]
            shares == (old.shares * details.hub_reserve) \div details.shares
            amount == (old.amount * details.share_tokens) \div details.shares
        IN /\ details.shares > 0
           /\ last.args.share_amount <= shares
           /\ omniAssets[pool_id].shares = last.pre.omniAssets[pool_id].shares - last.args.share_amount
           /\ IF last.args.share_amount = shares THEN ~has_position(Storage, id)
              ELSE /\ has_position(Storage, id)
                   /\ positions[id].asset_id = pool_id
                   /\ positions[id].owner = old.owner
                   /\ positions[id].shares = shares - last.args.share_amount
                   /\ positions[id].amount =
                          amount - (last.args.share_amount * amount) \div shares
                   /\ positions[id].price =
                          <<old.price[1] * details.price[2], old.price[2] * details.price[1]>>

\* part of the shares of a position of a migrated asset was removed, the
\* converted position is still stored
C15_Witness ==
    /\ RemovalOfMigratedPosition
    /\ has_position(Storage, last.args.position_id)
    /\ positions[last.args.position_id].asset_id \in subpools
    /\ positions[last.args.position_id].asset_id # last.pre.positions[last.args.position_id].asset_id

\* a successful remove_liquidity on a position that already referenced the
\* share asset of a registered subpool when the call was made
RemovalOfConvertedPosition ==
    /\ last.op = "remove_liquidity"
    /\ last.err = "Ok"
    /\ has_position(last.pre, last.args.position_id)
    /\ last.pre.positions[last.args.position_id].asset_id \in last.pre.subpools

\* C16: a position is converted at most once. A remove_liquidity on a
\* position that already references a share asset does not rescale it again:
\* the removal takes share_amount from that share asset and from the stored
\* position, and changes nothing else of the position.
C16_ConvertedOnce ==
    RemovalOfConvertedPosition =>
        LET id == last.args.position_id
            old == last.pre.positions[id]
        IN /\ has_asset(Storage, old.asset_id)
           /\ omniAssets[old.asset_id].shares =
                  last.pre.omniAssets[old.asset_id].shares - last.args.share_amount
           /\ IF last.args.share_amount = old.shares THEN ~has_position(Storage, id)
              ELSE
                /\ has_position(Storage, id)
                /\ positions[id].asset_id = old.asset_id
                /\ positions[id].owner = old.owner
                /\ positions[id].price = old.price
                /\ positions[id].shares = old.shares - last.args.share_amount
                /\ positions[id].amount =
                       old.amount - (last.args.share_amount * old.amount) \div old.shares

\* the assets the last migration call moves into the stable pool
CallMigratedAssets ==
    IF last.op = "create_subpool" THEN {last.args.asset_a, last.args.asset_b}
    ELSE {last.args.asset_id}

AddToMigrated ==
    /\ last.op = "add_liquidity"
    /\ last.err = "Ok"
    /\ last.args.asset_id \in DOMAIN last.pre.migratedAssets

\* the share asset the liquidity of the last add_liquidity ended up in
AddShareAsset == last.pre.migratedAssets[last.args.asset_id][1]

C20_AddLiquidityStable ==
    last.op = "add_liquidity_stable" =>
        LET asset_id == last.args.asset_id
            who == ALICE
        IN IF asset_id \notin DOMAIN last.pre.migratedAssets
           THEN last.err = "subpools.NotStableAsset" /\ ~last.wrote /\ Storage = last.pre
           ELSE (last.err = "Ok" /\ ~last.args.mint_nft) =>
                LET pool_id == last.pre.migratedAssets[asset_id][1]
                    minted == issuance[pool_id] - last.pre.issuance[pool_id]
                IN /\ bal[pool_account(pool_id)][asset_id]
                        = last.pre.bal[pool_account(pool_id)][asset_id] + last.args.amount
                   /\ bal[who][asset_id] = last.pre.bal[who][asset_id] - last.args.amount
                   /\ minted > 0
                   /\ bal[who][pool_id] = last.pre.bal[who][pool_id] + minted
                   /\ bal[OmnipoolAccount] = last.pre.bal[OmnipoolAccount]
                   /\ positions = last.pre.positions
                   /\ nextPositionId = last.pre.nextPositionId
                   /\ omniAssets = last.pre.omniAssets

\* the caller kept the share tokens of a deposit into a stable pool
C20_Witness ==
    /\ last.op = "add_liquidity_stable"
    /\ last.err = "Ok"
    /\ ~last.args.mint_nft
    /\ \E p \in subpools : bal[ALICE][p] > last.pre.bal[ALICE][p]

\* an asset that was never migrated was refused
C20_WitnessNotStable ==
    /\ last.op = "add_liquidity_stable"
    /\ last.args.asset_id \notin DOMAIN last.pre.migratedAssets
    /\ last.err = "subpools.NotStableAsset"

\* the sell paths that pay a migrated asset out of its stable pool for the
\* shares a hub-pool trade produced
StableOutSellHandlers ==
    {"resolve_sell_between_subpools",
     "resolve_mixed_trade_stable_out_given_asset_in",
     "resolve_mixed_trade_stable_out_given_hub_asset_in"}
StableOutSell ==
    /\ last.op = "sell"
    /\ last.err = "Ok"
    /\ last.handler \in StableOutSellHandlers

\* C30: in every sell whose asset_out is a migrated asset, the amount of
\* asset_out that moves from the stable pool's account to the caller equals
\* the net payout that calculate_withdraw_one_asset returned for the share
\* delta of the hub-pool trade: the withdrawal fee is charged once.
C30_SellPaysNetPayout ==
    StableOutSell =>
        /\ Credited = Unwrap(last.args.withdraw).amount
        /\ last.pre.bal[pool_account(last.pre.migratedAssets[last.args.asset_out][1])][last.args.asset_out]
             - bal[pool_account(last.pre.migratedAssets[last.args.asset_out][1])][last.args.asset_out]
           = Unwrap(last.args.withdraw).amount

(* ---------------------- claims on pallet_stableswap ---------------------- *)
TradeDone == lastStable.op \in {"sell", "buy"} /\ lastStable.err = "Ok"

Ramping(call) ==
    /\ call.pre.initial_amplification # call.pre.final_amplification
    /\ call.amplification # call.pre.initial_amplification
    /\ call.amplification # call.pre.final_amplification

C21_WitnessBuy == TradeDone /\ lastStable.op = "buy" /\ lastStable.before.op = "sell" /\ lastStable.pre.fee > 0

\* the solves for D behind a share delta: on the reserves of the call and on
\* the reserves with the amount moved
DepositSolves(call) ==
    {computeInvariantSolve(call.pre.reserves, call.amplification),
     computeInvariantSolve([call.pre.reserves EXCEPT ![call.idx] = @ + call.amount], call.amplification)}
WithdrawalSolves(call) ==
    {computeInvariantSolve(call.pre.reserves, call.amplification),
     computeInvariantSolve([call.pre.reserves EXCEPT ![call.idx] =
                                @ - (call.amount + calculate_fee_amount(call.amount, call.pre.withdraw_fee))],
                           call.amplification)}
HitCap(s, cap) == s.n = cap /\ ~s.done /\ ~s.failed

\* C22: computeInvariant and solveBalanceGivenD return nothing but a converged
\* value: a result is the last estimate of a solve whose last two estimates
\* differ by at most 1, a solve that did not get there gives no result, and
\* the engine answers a share delta whose solve gave no result with its Math
\* error.
C22_NoUnconvergedResult ==
    /\ lastStable.op \in {"calculate_d", "calculate_y"} =>
        /\ lastStable.result # None =>
            /\ lastStable.solve.done
            /\ has_converged(lastStable.solve.prev, lastStable.solve.v)
            /\ Unwrap(lastStable.result) = lastStable.solve.v
        /\ ~lastStable.solve.done => lastStable.result = None
    /\ lastStable.op = "calculate_shares_for_amount" =>
        ((\E s \in DepositSolves(lastStable) : ~s.done) => lastStable.err = "subpools.Math")
    /\ lastStable.op = "calculate_shares_removed" =>
        ((\E s \in WithdrawalSolves(lastStable) : ~s.done) => lastStable.err = "subpools.Math")

C22_Witness ==
    /\ lastStable.op = "calculate_shares_for_amount"
    /\ lastStable.err = "subpools.Math"
    /\ \E s \in DepositSolves(lastStable) : HitCap(s, MAX_D_ITERATIONS)
C22_WitnessSolve ==
    /\ lastStable.op = "calculate_y"
    /\ HitCap(lastStable.solve, MAX_Y_ITERATIONS)
    /\ lastStable.result = None

\* C23: every iterative solve ends within its cap: the solve for D makes at
\* most MAX_D_ITERATIONS Newton steps and the solve for a balance at most
\* MAX_Y_ITERATIONS, whether it converged or not.
C23_SolveWithinCap ==
    /\ lastStable.op = "calculate_d" => lastStable.solve.n <= MAX_D_ITERATIONS
    /\ lastStable.op = "calculate_y" => lastStable.solve.n <= MAX_Y_ITERATIONS
    /\ lastStable.op = "calculate_shares_for_amount" =>
        \A s \in DepositSolves(lastStable) : s.n <= MAX_D_ITERATIONS
    /\ lastStable.op = "calculate_shares_removed" =>
        \A s \in WithdrawalSolves(lastStable) : s.n <= MAX_D_ITERATIONS

C23_Witness == lastStable.op = "calculate_d" /\ HitCap(lastStable.solve, MAX_D_ITERATIONS)
C23_WitnessConverged ==
    /\ lastStable.op = "calculate_y"
    /\ lastStable.solve.done
    /\ lastStable.solve.n > 1
    /\ lastStable.solve.n < MAX_Y_ITERATIONS

RoundTrip ==
    /\ lastStable.op = "remove_liquidity_one_asset"
    /\ lastStable.err = "Ok"
    /\ lastStable.before.op = "add_liquidity"
    /\ lastStable.before.err = "Ok"
    /\ lastStable.before.idx = lastStable.idx
    /\ lastStable.amount = lastStable.before.result
    /\ lastStable.amount > 0

Between(a, x, y) == (x <= a /\ a <= y) \/ (y <= a /\ a <= x)

\* C26: the amplification in effect is the initial one before the initial
\* block of the ramp and the final one from the final block on; in between it
\* lies between the two and moves from block to block towards the final one,
\* never back.
C26_AmplificationRamp ==
    \A block \in 0..(MaxBlock + 1) :
        LET a == effectiveAmplification(stablePool, block)
            next == effectiveAmplification(stablePool, block + 1)
        IN  /\ block < stablePool.initial_block => a = stablePool.initial_amplification
            /\ block >= stablePool.final_block => a = stablePool.final_amplification
            /\ Between(a, stablePool.initial_amplification, stablePool.final_amplification)
            /\ Between(next, a, stablePool.final_amplification)

C26_Witness ==
    /\ TradeDone
    /\ Ramping(lastStable)
    /\ lastStable.amplification = effectiveAmplification(stablePool, blockNumber)
    /\ blockNumber > stablePool.initial_block
    /\ blockNumber < stablePool.final_block
    /\ stablePool.initial_amplification > stablePool.final_amplification

(* --------------------------- claims on pallet_dca ------------------------ *)
DcaUnchanged == DcaState = lastDca.pre
Resumed == lastDca.op = "resume"
ByOwner == lastDca.who = lastDca.pre.scheduleOwnership[lastDca.id]
InFuture == lastDca.block = None \/ Unwrap(lastDca.block) > lastDca.pre.blockNumber

C27_WitnessSuspended ==
    /\ Resumed /\ ~ByOwner
    /\ lastDca.id \in suspended
    /\ lastDca.err = "NotScheduleOwner"

\* C28: pause takes the schedule id out of the list of the block it was
\* planned for and marks the schedule suspended; resume by the owner with no
\* block given clears the mark and puts the id at the end of the list of the
\* block after the current one, behind every id already planned there.
C28_PauseThenResume ==
    /\ (lastDca.op = "pause" /\ lastDca.err = "Ok") =>
        /\ lastDca.id \in suspended
        /\ scheduleIdsPerBlock =
             [lastDca.pre.scheduleIdsPerBlock EXCEPT ![Unwrap(lastDca.block)] =
                SelectSeq(@, LAMBDA x : x # lastDca.id)]
        /\ \A i \in DOMAIN scheduleIdsPerBlock[Unwrap(lastDca.block)] :
                scheduleIdsPerBlock[Unwrap(lastDca.block)][i] # lastDca.id
    /\ (Resumed /\ ByOwner /\ lastDca.block = None /\ lastDca.err = "Ok") =>
        /\ lastDca.id \in lastDca.pre.suspended
        /\ suspended = lastDca.pre.suspended \ {lastDca.id}
        /\ scheduleIdsPerBlock =
             [lastDca.pre.scheduleIdsPerBlock EXCEPT ![lastDca.pre.blockNumber + 1] =
                Append(@, lastDca.id)]

C28_Witness ==
    /\ Resumed /\ ByOwner /\ lastDca.block = None /\ lastDca.err = "Ok"
    /\ lastDca.id = 1
    /\ scheduleIdsPerBlock[blockNumber + 1] = <<2, 1>>
C28_WitnessPause ==
    /\ lastDca.op = "pause"
    /\ lastDca.pre.scheduleIdsPerBlock[Unwrap(lastDca.block)] = <<1, 2>>
    /\ scheduleIdsPerBlock[Unwrap(lastDca.block)] = <<2>>

C29_WitnessPast ==
    /\ Resumed /\ ByOwner
    /\ lastDca.block # None
    /\ Unwrap(lastDca.block) < blockNumber
    /\ lastDca.err = "BlockNumberIsNotInFuture"

(* ------------------------ further claims on the engine ------------------- *)
\* C31: the fixed leg of a trade the engine resolves is exact: a successful
\* sell takes exactly amount of asset_in from the caller, a successful buy
\* gives the caller exactly amount of asset_out.
C31_FixedLegExact ==
    (EngineTrade /\ last.err = "Ok") =>
        /\ last.op = "sell" => Debited = last.args.amount
        /\ last.op = "buy" => Credited = last.args.amount

C31_Witness ==
    /\ EngineTrade /\ last.err = "Ok" /\ last.op = "sell"
    /\ last.handler = "resolve_mixed_trade_stable_out_given_asset_in"
    /\ last.args.amount = MaxAmount
    /\ Debited = MaxAmount
C31_WitnessBuy ==
    /\ EngineTrade /\ last.err = "Ok" /\ last.op = "buy"
    /\ last.handler = "resolve_mixed_trade_stable_in_given_asset_out"
    /\ last.args.amount = MaxAmount
    /\ Credited = MaxAmount
    /\ Debited # Credited

FlagsAllowTrade ==
    /\ SELL \in OwnerFlags(last.pre, last.args.asset_in)
    /\ BUY \in OwnerFlags(last.pre, last.args.asset_out)
ChecksBeforeWrites == {"subpools.NotAllowed", "subpools.Math", "subpools.LimitNotReached", "subpools.LimitExceeded"}

\* C32: within each case of the engine the order is fixed: the tradability
\* check, then the computation of every delta, then the slippage check, then
\* the transfers, the mint or burn of shares and the update of the hub pool:
\* a trade that fails a check or a computation has written nothing, and a
\* trade that got as far as a computation, the slippage check or a write had
\* passed the tradability check.
C32_ChecksThenWrites ==
    EngineTrade =>
        /\ last.err \in ChecksBeforeWrites => ~last.wrote
        /\ (last.wrote \/ last.err \in {"subpools.Math", "subpools.LimitNotReached", "subpools.LimitExceeded"})
                => FlagsAllowTrade

C32_Witness ==
    /\ EngineTrade
    /\ last.handler = "resolve_buy_between_subpools"
    /\ last.err = "subpools.LimitExceeded"
    /\ bal[ALICE][last.args.asset_in] >= MaxAmount
    /\ ~last.wrote
C32_WitnessWrote ==
    /\ EngineTrade
    /\ last.handler = "resolve_mixed_trade_iso_in_given_stable_out"
    /\ last.wrote
    /\ last.err # "Ok"

\* C37: after any sequence of calls, for every registered subpool the reserve
\* the hub pool records for its share asset is the amount of the share token
\* the protocol account holds.
C37_ShareReserveIsHeld ==
    \A p \in subpools :
        p \in DOMAIN omniAssets => omniAssets[p].reserve = bal[OmnipoolAccount][p]

C37_Witness ==
    /\ last.op = "sell" /\ last.err = "Ok"
    /\ last.handler = "resolve_mixed_trade_stable_out_given_hub_asset_in"
    /\ \E p \in subpools :
        /\ p \in DOMAIN omniAssets
        /\ omniAssets[p].reserve < last.pre.omniAssets[p].reserve
        /\ omniAssets[p].reserve = bal[OmnipoolAccount][p]
        /\ bal[OmnipoolAccount][p] > 0
C37_WitnessMigrated ==
    /\ last.op = "buy" /\ last.err = "Ok"
    /\ last.handler = "resolve_buy_between_subpools"
    /\ \A p \in subpools : p \in DOMAIN omniAssets /\ omniAssets[p].reserve # last.pre.omniAssets[p].reserve
    /\ Cardinality(subpools) = 2

\* C38: in every reachable state no asset id is both a hub-pool asset and a
\* key of the migration registry.
C38_NativeOrMigrated ==
    \A a \in DOMAIN migratedAssets : a \notin DOMAIN omniAssets

\* C39: in every reachable state the pool id of each entry of the migration
\* registry is a registered subpool, and each registered subpool id is a
\* hub-pool asset that is not itself a key of the migration registry.
C39_RegistriesAgree ==
    /\ \A a \in DOMAIN migratedAssets : migratedAssets[a][1] \in subpools
    /\ \A p \in subpools : p \in DOMAIN omniAssets /\ p \notin DOMAIN migratedAssets

\* the share asset a removal is made from: the subpool the position's asset
\* was migrated to, or the position's own asset
RemovedFrom ==
    LET a == last.pre.positions[last.args.position_id].asset_id
    IN  IF a \in DOMAIN last.pre.migratedAssets THEN last.pre.migratedAssets[a][1] ELSE a

\* C40: a successful remove_liquidity from a subpool position with a withdraw
\* asset leaves the caller the share tokens held before the call.
C40_KeepsHeldShares ==
    (last.op = "remove_liquidity" /\ last.err = "Ok" /\ IsSome(last.args.asset)
        /\ RemovedFrom \in last.pre.subpools) =>
        bal[ALICE][RemovedFrom] = last.pre.bal[ALICE][RemovedFrom]

(* ------------------------ pallet_xcm_rate_limiter ------------------------ *)
(* The XCM rate limiter on its own: deferred_by is asked about incoming     *)
(* messages while blocks pass, and its three calculations are applied to    *)
(* arguments of their whole range. u128 and the block number type are       *)
(* followed at a small width; the arithmetic saturates where the code's     *)
(* does.                                                                    *)
u128_MAX == 7
BlockNumber_MAX == 3
MaxRateBlock == 2
MaxMessages == 2
MaxIncoming == 4
MaxRateLimit == 2

\* Ord::max
max(a, b) == IF a > b THEN a ELSE b

\* u128::saturating_sub
saturating_sub(a, b) == IF a > b THEN a - b ELSE 0

\* u128::saturating_add
saturating_add(a, b) == IF a + b > u128_MAX THEN u128_MAX ELSE a + b

\* u128::saturating_mul
saturating_mul(a, b) == IF a * b > u128_MAX THEN u128_MAX ELSE a * b

\* SaturatedConversion from u128 into BlockNumber
saturated_into(x) == IF x > BlockNumber_MAX THEN BlockNumber_MAX ELSE x

\* variant: the subtraction wraps around instead of stopping at zero
decay_wrapping(global_duration, rate_limit, accumulated_amount, blocks_since_last_update) ==
    LET duration == max(global_duration, 1)
    IN  (accumulated_amount
            - (saturating_mul(rate_limit, blocks_since_last_update) \div duration)) % (u128_MAX + 1)

decay(global_duration, rate_limit, accumulated_amount, blocks_since_last_update) ==
    LET duration == max(global_duration, 1)
    IN  saturating_sub(accumulated_amount,
                       saturating_mul(rate_limit, blocks_since_last_update) \div duration)

calculate_new_accumulated_amount(global_duration, rate_limit, incoming_amount, accumulated_amount, blocks_since_last_update) ==
    saturating_add(incoming_amount,
                   decay(global_duration, rate_limit, accumulated_amount, blocks_since_last_update))

\* variant: the rate limit is not taken off the accumulated amount
calculate_deferred_duration_of_whole_amount(global_duration, rate_limit, incoming_amount, accumulated_amount, blocks_since_last_update) ==
    LET total_accumulated == calculate_new_accumulated_amount(global_duration, rate_limit,
                                 incoming_amount, accumulated_amount, blocks_since_last_update)
        duration == max(global_duration, 1)
        deferred_duration == saturating_mul(duration, total_accumulated) \div max(rate_limit, 1)
    IN  saturated_into(deferred_duration)

calculate_deferred_duration(global_duration, rate_limit, incoming_amount, accumulated_amount, blocks_since_last_update) ==
    LET total_accumulated == calculate_new_accumulated_amount(global_duration, rate_limit,
                                 incoming_amount, accumulated_amount, blocks_since_last_update)
        duration == max(global_duration, 1)
        deferred_duration == saturating_mul(duration, saturating_sub(total_accumulated, rate_limit))
                                \div max(rate_limit, 1)
    IN  saturated_into(deferred_duration)

\* A MultiAsset is [id, fun]: id is <<"Concrete", location>> or <<"Abstract">>,
\* fun is <<"Fungible", amount>> or <<"NonFungible">>.
get_loc_and_amount(m) ==
    IF m.id[1] = "Concrete" /\ m.fun[1] = "Fungible" THEN <<(<<m.id[2], m.fun[2]>>)>> ELSE << >>

\* An Instruction is [kind, assets]; the result is the list of <<location, amount>>
get_locations_and_amounts(instruction) ==
    IF instruction.kind \in {"ReserveAssetDeposited", "ReceiveTeleportedAsset"}
    THEN LET found == SelectSeq(instruction.assets, LAMBDA asset : IsSome(get_loc_and_amount(asset)))
         IN  [i \in 1..Len(found) |-> Unwrap(get_loc_and_amount(found[i]))]
    ELSE << >>

\* T::CurrencyIdConvert::convert and T::RateLimitFor::get, as configured
CurrencyIdConvert(cfg, location) == cfg.asset_id[location]

RateLimitFor(cfg, asset_id) == cfg.rate_limit[asset_id]

\* the two `continue`s of the loop: the location has an asset id, the asset id a limit
is_rate_limited(cfg, location) ==
    /\ IsSome(CurrencyIdConvert(cfg, location))
    /\ IsSome(RateLimitFor(cfg, Unwrap(CurrencyIdConvert(cfg, location))))

\* variant: the loop goes on to the last entry that is rate limited
first_rate_limited_or_last(cfg, entries) ==
    LET limited == {i \in 1..Len(entries) : is_rate_limited(cfg, entries[i][1])}
    IN  IF limited = {} THEN 0 ELSE CHOOSE i \in limited : \A j \in limited : i >= j

\* the entry the loop returns at: the index of the first one that is rate
\* limited, 0 when the loop runs to its end
first_rate_limited(cfg, entries) ==
    LET limited == {i \in 1..Len(entries) : is_rate_limited(cfg, entries[i][1])}
    IN  IF limited = {} THEN 0 ELSE CHOOSE i \in limited : \A j \in limited : i <= j

\* variant: the stored entry keeps the block of the update before
account_keeping_last_updated(cfg, st, current_time, location, amount) ==
    LET accumulated_liquidity == st[location]
        limit_per_duration == Unwrap(RateLimitFor(cfg, Unwrap(CurrencyIdConvert(cfg, location))))
        defer_duration == cfg.defer_duration
        time_difference == saturating_sub(current_time, accumulated_liquidity.last_updated)
        new_accumulated_amount == calculate_new_accumulated_amount(defer_duration, limit_per_duration,
                                      amount, accumulated_liquidity.amount, time_difference)
        deferred == calculate_deferred_duration(defer_duration, limit_per_duration,
                                      amount, accumulated_liquidity.amount, time_difference)
    IN  [result |-> IF deferred > 0 THEN <<deferred>> ELSE << >>,
         st |-> [st EXCEPT ![location] = [amount |-> new_accumulated_amount,
                                          last_updated |-> accumulated_liquidity.last_updated]]]

\* the body of the loop for a rate limited asset
account(cfg, st, current_time, location, amount) ==
    LET accumulated_liquidity == st[location]
        limit_per_duration == Unwrap(RateLimitFor(cfg, Unwrap(CurrencyIdConvert(cfg, location))))
        defer_duration == cfg.defer_duration
        time_difference == saturating_sub(current_time, accumulated_liquidity.last_updated)
        new_accumulated_amount == calculate_new_accumulated_amount(defer_duration, limit_per_duration,
                                      amount, accumulated_liquidity.amount, time_difference)
        deferred == calculate_deferred_duration(defer_duration, limit_per_duration,
                                      amount, accumulated_liquidity.amount, time_difference)
    IN  [result |-> IF deferred > 0 THEN <<deferred>> ELSE << >>,
         st |-> [st EXCEPT ![location] = [amount |-> new_accumulated_amount,
                                          last_updated |-> current_time]]]

\* A VersionedXcm is [version, instructions]
deferred_by(cfg, st, current_time, xcm) ==
    IF xcm.version # "V3" THEN [result |-> << >>, st |-> st]
    ELSE IF xcm.instructions = << >> THEN [result |-> << >>, st |-> st]
    ELSE LET entries == get_locations_and_amounts(Head(xcm.instructions))
             i == first_rate_limited(cfg, entries)
         IN  IF i = 0 THEN [result |-> << >>, st |-> st]
             ELSE account(cfg, st, current_time, entries[i][1], entries[i][2])

(* ------------------- pallet_xcm_rate_limiter: the calls ------------------ *)
\* "dot" and "ksm" have an asset id with a rate limit, "usdt" an asset id
\* without one, "unknown" no asset id
Locations == {"dot", "ksm", "usdt", "unknown"}
RateConfigs ==
    [defer_duration : {0, 2},
     asset_id : {[l \in Locations |-> IF l = "dot" THEN <<1>> ELSE IF l = "ksm" THEN <<2>>
                                      ELSE IF l = "usdt" THEN <<3>> ELSE << >>]},
     rate_limit : {[a \in 1..3 |-> IF a = 1 THEN <<limit>> ELSE IF a = 2 THEN <<0>> ELSE << >>] :
                        limit \in 1..MaxRateLimit}]
Fungible(location, amount) == [id |-> <<"Concrete", location>>, fun |-> <<"Fungible", amount>>]
IncomingAmounts == {1, MaxIncoming}
Limited == {Fungible(l, n) : l \in {"dot", "ksm"}, n \in IncomingAmounts}
Unlimited ==
    {Fungible("usdt", 1), Fungible("unknown", 1),
     [id |-> <<"Abstract">>, fun |-> <<"Fungible", 1>>],
     [id |-> <<"Concrete", "dot">>, fun |-> <<"NonFungible">>]}
\* lists of assets: none, one, a rate limited one after another asset
AssetLists ==
    {<< >>} \cup {<<a>> : a \in Limited \cup Unlimited}
    \cup {<<a, b>> : a \in Unlimited \cup {Fungible("dot", 1)},
                     b \in {Fungible("dot", MaxIncoming), Fungible("ksm", 1)}}
FirstInstructions ==
    [kind : {"ReserveAssetDeposited"}, assets : AssetLists]
    \cup [kind : {"ReceiveTeleportedAsset"},
          assets : {<<Fungible("dot", 1)>>, <<Fungible("usdt", 1), Fungible("ksm", 1)>>}]
    \cup [kind : {"WithdrawAsset"}, assets : {<<Fungible("dot", MaxIncoming)>>}]
LaterInstruction == [kind |-> "ReserveAssetDeposited", assets |-> <<Fungible("dot", MaxIncoming)>>]
Messages ==
    {[version |-> "V3", instructions |-> << >>],
     [version |-> "V2", instructions |-> <<LaterInstruction>>]}
    \cup {[version |-> "V3", instructions |-> <<i>>] : i \in FirstInstructions}
    \cup {[version |-> "V3", instructions |-> <<i, LaterInstruction>>] :
                i \in {j \in FirstInstructions :
                            \/ j.kind = "WithdrawAsset"
                            \/ Len(j.assets) <= 1 /\ j.assets \notin {<<a>> : a \in Limited}}}
CalculationArgs ==
    [global_duration : 0..BlockNumber_MAX, rate_limit : 0..u128_MAX, incoming_amount : 0..u128_MAX,
     accumulated_amount : 0..u128_MAX, blocks_since_last_update : 0..BlockNumber_MAX]

RateInit ==
    /\ SubpoolsIdle
    /\ StableswapIdle
    /\ DcaIdle
    /\ blockNumber = 0
    /\ rateConfig \in RateConfigs
    /\ accumulatedDeferredAmounts = [l \in Locations |-> [amount |-> 0, last_updated |-> 0]]
    /\ lastRate = [op |-> "genesis", args |-> << >>, result |-> << >>,
                   pre |-> accumulatedDeferredAmounts, block |-> 0, n |-> 0]

\* messages are followed up to MaxMessages of them; a calculation is applied
\* to the pallet as configured, before any message
Receiving == lastRate.op \in {"genesis", "deferred_by"}
Calculating == lastRate.op = "genesis" /\ blockNumber = 0

RateRecord(op, args, result) ==
    [op |-> op, args |-> args, result |-> result, pre |-> accumulatedDeferredAmounts,
     block |-> blockNumber, n |-> IF op = "deferred_by" THEN lastRate.n + 1 ELSE lastRate.n]

DeferredBy ==
    /\ Receiving
    /\ lastRate.n < MaxMessages
    /\ \E xcm \in Messages :
        \E r \in {deferred_by(rateConfig, accumulatedDeferredAmounts, blockNumber, xcm)} :
            /\ accumulatedDeferredAmounts' = r.st
            /\ lastRate' = RateRecord("deferred_by", xcm, r.result)
    /\ UNCHANGED <<subpoolsVars, blockNumber, stableswapVars, dcaVars, rateConfig>>

Decay ==
    /\ Calculating
    /\ \E a \in CalculationArgs :
        /\ a.incoming_amount = 0
        /\ lastRate' = RateRecord("decay", a,
                          decay(a.global_duration, a.rate_limit, a.accumulated_amount,
                                a.blocks_since_last_update))
    /\ UNCHANGED <<subpoolsVars, blockNumber, stableswapVars, dcaVars, rateConfig,
                   accumulatedDeferredAmounts>>

CalculateNewAccumulatedAmount ==
    /\ Calculating
    /\ \E a \in CalculationArgs :
        lastRate' = RateRecord("calculate_new_accumulated_amount", a,
                       calculate_new_accumulated_amount(a.global_duration, a.rate_limit,
                           a.incoming_amount, a.accumulated_amount, a.blocks_since_last_update))
    /\ UNCHANGED <<subpoolsVars, blockNumber, stableswapVars, dcaVars, rateConfig,
                   accumulatedDeferredAmounts>>

CalculateDeferredDuration ==
    /\ Calculating
    /\ \E a \in CalculationArgs :
        lastRate' = RateRecord("calculate_deferred_duration", a,
                       calculate_deferred_duration(a.global_duration, a.rate_limit,
                           a.incoming_amount, a.accumulated_amount, a.blocks_since_last_update))
    /\ UNCHANGED <<subpoolsVars, blockNumber, stableswapVars, dcaVars, rateConfig,
                   accumulatedDeferredAmounts>>

RateNextBlock ==
    /\ Receiving
    /\ blockNumber < MaxRateBlock
    /\ blockNumber' = blockNumber + 1
    /\ UNCHANGED <<subpoolsVars, stableswapVars, dcaVars, rateLimiterVars>>

RateNext ==
    \/ DeferredBy \/ Decay \/ CalculateNewAccumulatedAmount \/ CalculateDeferredDuration
    \/ RateNextBlock

RateSpec == RateInit /\ [][RateNext]_vars

(* --------------------- claims on the XCM rate limiter -------------------- *)
\* the arguments of the calculation made last
Calculated(op) == lastRate.op = op
\* rate_limit * blocks / max(global_duration, 1), in unbounded integers
ExactDecrease(a) == (a.rate_limit * a.blocks_since_last_update) \div max(a.global_duration, 1)
\* the same with the product stopping at the u128 maximum
SaturatedDecrease(a) ==
    (IF a.rate_limit * a.blocks_since_last_update > u128_MAX THEN u128_MAX
     ELSE a.rate_limit * a.blocks_since_last_update) \div max(a.global_duration, 1)
FlooredAtZero(x) == IF x < 0 THEN 0 ELSE x
\* the decayed amount falls as blocks pass and never exceeds the accumulated amount
DecayFalls(a) ==
    /\ decay(a.global_duration, a.rate_limit, a.accumulated_amount, a.blocks_since_last_update)
            <= a.accumulated_amount
    /\ \A later \in a.blocks_since_last_update..BlockNumber_MAX :
            decay(a.global_duration, a.rate_limit, a.accumulated_amount, later)
                <= decay(a.global_duration, a.rate_limit, a.accumulated_amount,
                         a.blocks_since_last_update)

\* C33 as stated: decay returns accumulated_amount minus rate_limit * blocks /
\* max(global_duration, 1), floored at 0, non-increasing in the blocks and at
\* most the accumulated amount; the new accumulated amount is the incoming
\* amount plus that, saturating at the u128 maximum.
C33_DecayOfExactProduct ==
    /\ Calculated("decay") =>
        /\ lastRate.result = FlooredAtZero(lastRate.args.accumulated_amount - ExactDecrease(lastRate.args))
        /\ DecayFalls(lastRate.args)
    /\ Calculated("calculate_new_accumulated_amount") =>
        LET sum == lastRate.args.incoming_amount
                    + FlooredAtZero(lastRate.args.accumulated_amount - ExactDecrease(lastRate.args))
        IN  lastRate.result = IF sum > u128_MAX THEN u128_MAX ELSE sum

\* C33: decay returns accumulated_amount minus (rate_limit * blocks, stopping
\* at the u128 maximum) / max(global_duration, 1), floored at 0,
\* non-increasing in the blocks and at most the accumulated amount; the new
\* accumulated amount is the incoming amount plus that, saturating at the
\* u128 maximum.
C33_DecayOfSaturatedProduct ==
    /\ Calculated("decay") =>
        /\ lastRate.result = FlooredAtZero(lastRate.args.accumulated_amount - SaturatedDecrease(lastRate.args))
        /\ DecayFalls(lastRate.args)
    /\ Calculated("calculate_new_accumulated_amount") =>
        LET sum == lastRate.args.incoming_amount
                    + FlooredAtZero(lastRate.args.accumulated_amount - SaturatedDecrease(lastRate.args))
        IN  lastRate.result = IF sum > u128_MAX THEN u128_MAX ELSE sum

\* a decay whose product passes the u128 maximum and leaves something
C33_Witness ==
    /\ Calculated("decay")
    /\ lastRate.args.rate_limit * lastRate.args.blocks_since_last_update > u128_MAX
    /\ lastRate.result > 0
    /\ lastRate.result < lastRate.args.accumulated_amount

\* a decay that stops at zero
C33_WitnessFloor ==
    /\ Calculated("decay")
    /\ lastRate.args.accumulated_amount > 0
    /\ ExactDecrease(lastRate.args) > lastRate.args.accumulated_amount
    /\ lastRate.result = 0

\* a new accumulated amount that stops at the u128 maximum
C33_WitnessSaturated ==
    /\ Calculated("calculate_new_accumulated_amount")
    /\ lastRate.args.incoming_amount < u128_MAX
    /\ lastRate.args.accumulated_amount < u128_MAX
    /\ lastRate.result = u128_MAX

\* max(global_duration, 1) * (total_accumulated - rate_limit) / max(rate_limit, 1),
\* in unbounded integers
ExactDuration(a) ==
    LET total_accumulated == calculate_new_accumulated_amount(a.global_duration, a.rate_limit,
                                 a.incoming_amount, a.accumulated_amount, a.blocks_since_last_update)
    IN  (max(a.global_duration, 1) * FlooredAtZero(total_accumulated - a.rate_limit))
            \div max(a.rate_limit, 1)
\* the same with the product stopping at the u128 maximum and the quotient at
\* the block number maximum
SaturatedDuration(a) ==
    LET total_accumulated == calculate_new_accumulated_amount(a.global_duration, a.rate_limit,
                                 a.incoming_amount, a.accumulated_amount, a.blocks_since_last_update)
        product == max(a.global_duration, 1) * FlooredAtZero(total_accumulated - a.rate_limit)
        quotient == (IF product > u128_MAX THEN u128_MAX ELSE product) \div max(a.rate_limit, 1)
    IN  IF quotient > BlockNumber_MAX THEN BlockNumber_MAX ELSE quotient
\* the duration is 0 up to the rate limit and grows with the incoming amount
DurationGrows(a) ==
    /\ calculate_new_accumulated_amount(a.global_duration, a.rate_limit, a.incoming_amount,
            a.accumulated_amount, a.blocks_since_last_update) <= a.rate_limit
        => lastRate.result = 0
    /\ \A more \in a.incoming_amount..u128_MAX :
            calculate_deferred_duration(a.global_duration, a.rate_limit, more,
                a.accumulated_amount, a.blocks_since_last_update) >= lastRate.result

\* C34 as stated: calculate_deferred_duration returns max(global_duration, 1) *
\* (total_accumulated - rate_limit) / max(rate_limit, 1), 0 whenever
\* total_accumulated is at most rate_limit, and is non-decreasing in the
\* incoming amount.
C34_DurationOfExactProduct ==
    Calculated("calculate_deferred_duration") =>
        /\ lastRate.result = ExactDuration(lastRate.args)
        /\ DurationGrows(lastRate.args)

\* C34: calculate_deferred_duration returns max(global_duration, 1) *
\* (total_accumulated - rate_limit), stopping at the u128 maximum, divided by
\* max(rate_limit, 1), stopping at the block number maximum; it is 0 whenever
\* total_accumulated is at most rate_limit and non-decreasing in the incoming
\* amount.
C34_DurationOfSaturatedProduct ==
    Calculated("calculate_deferred_duration") =>
        /\ lastRate.result = SaturatedDuration(lastRate.args)
        /\ DurationGrows(lastRate.args)

\* a duration cut at the block number maximum
C34_Witness ==
    /\ Calculated("calculate_deferred_duration")
    /\ ExactDuration(lastRate.args) > BlockNumber_MAX
    /\ lastRate.result = BlockNumber_MAX

\* a duration of 0 for an amount within the rate limit, and one above 0
C34_WitnessZero ==
    /\ Calculated("calculate_deferred_duration")
    /\ lastRate.args.incoming_amount > 0
    /\ lastRate.args.rate_limit > 0
    /\ lastRate.result = 0

\* the message is V3 and its first instruction deposits assets
Deposits(xcm) ==
    /\ xcm.version = "V3"
    /\ xcm.instructions # << >>
    /\ Head(xcm.instructions).kind \in {"ReserveAssetDeposited", "ReceiveTeleportedAsset"}
\* a fungible asset at a location whose asset id has a rate limit configured
HasRateLimit(asset) ==
    /\ asset.id[1] = "Concrete" /\ asset.fun[1] = "Fungible"
    /\ rateConfig.asset_id[asset.id[2]] # << >>
    /\ rateConfig.rate_limit[rateConfig.asset_id[asset.id[2]][1]] # << >>
\* the positions of the rate limited assets of the first instruction
RateLimitedAssets(xcm) ==
    IF Deposits(xcm)
    THEN {i \in 1..Len(Head(xcm.instructions).assets) : HasRateLimit(Head(xcm.instructions).assets[i])}
    ELSE {}
\* the first of them
DecidingAsset(xcm) ==
    Head(xcm.instructions).assets[CHOOSE i \in RateLimitedAssets(xcm) :
                                      \A j \in RateLimitedAssets(xcm) : i <= j]
Deferred == lastRate.op = "deferred_by"

\* C35: after deferred_by on a V3 message whose first instruction deposits a
\* rate limited asset, the entry of that asset's location holds the incoming
\* amount plus the decayed amount of before and the current block, and the
\* result is Some(d) when the deferred duration d is above 0 and None otherwise.
C35_StoresAndDefers ==
    (Deferred /\ RateLimitedAssets(lastRate.args) # {}) =>
        LET location == DecidingAsset(lastRate.args).id[2]
            amount == DecidingAsset(lastRate.args).fun[2]
            before == lastRate.pre[location]
            limit == rateConfig.rate_limit[rateConfig.asset_id[location][1]][1]
            elapsed == lastRate.block - before.last_updated
            d == calculate_deferred_duration(rateConfig.defer_duration, limit, amount,
                                             before.amount, elapsed)
        IN  /\ accumulatedDeferredAmounts[location] =
                    [amount |-> calculate_new_accumulated_amount(rateConfig.defer_duration, limit,
                                    amount, before.amount, elapsed),
                     last_updated |-> lastRate.block]
            /\ lastRate.result = IF d > 0 THEN <<d>> ELSE << >>

\* a second message for a location, blocks after the first, that is deferred
C35_Witness ==
    /\ Deferred /\ RateLimitedAssets(lastRate.args) # {}
    /\ lastRate.pre[DecidingAsset(lastRate.args).id[2]].amount > 0
    /\ lastRate.block > lastRate.pre[DecidingAsset(lastRate.args).id[2]].last_updated
    /\ accumulatedDeferredAmounts[DecidingAsset(lastRate.args).id[2]].amount
            < lastRate.pre[DecidingAsset(lastRate.args).id[2]].amount + DecidingAsset(lastRate.args).fun[2]
    /\ lastRate.result # << >>

\* a message within the rate limit, which is not deferred
C35_WitnessNone ==
    /\ Deferred /\ RateLimitedAssets(lastRate.args) # {}
    /\ accumulatedDeferredAmounts[DecidingAsset(lastRate.args).id[2]].amount > 0
    /\ lastRate.result = << >>

\* the message that deposits the one asset and nothing else
Alone(asset) ==
    [version |-> "V3", instructions |-> <<[kind |-> "ReserveAssetDeposited", assets |-> <<asset>>]>>]

\* C36: deferred_by on a message with a rate limited asset in its first
\* instruction answers and writes what it does for the first such asset alone,
\* and leaves every other location as it was; on any other message it answers
\* None and writes nothing.
C36_OneAssetPerMessage ==
    Deferred =>
        IF RateLimitedAssets(lastRate.args) # {}
        THEN /\ deferred_by(rateConfig, lastRate.pre, lastRate.block, Alone(DecidingAsset(lastRate.args)))
                    = [result |-> lastRate.result, st |-> accumulatedDeferredAmounts]
             /\ \A l \in Locations \ {DecidingAsset(lastRate.args).id[2]} :
                    accumulatedDeferredAmounts[l] = lastRate.pre[l]
        ELSE /\ lastRate.result = << >>
             /\ accumulatedDeferredAmounts = lastRate.pre

\* two rate limited assets in one instruction: the second one is not accounted
C36_Witness ==
    /\ Deferred
    /\ Cardinality(RateLimitedAssets(lastRate.args)) = 2
    /\ 1 \in RateLimitedAssets(lastRate.args)
    /\ Head(lastRate.args.instructions).assets[2].id[2] # DecidingAsset(lastRate.args).id[2]
    /\ accumulatedDeferredAmounts[Head(lastRate.args.instructions).assets[2].id[2]].amount = 0
    /\ accumulatedDeferredAmounts[DecidingAsset(lastRate.args).id[2]].amount > 0

\* a rate limited asset in a later instruction only: nothing is written
C36_WitnessLater ==
    /\ Deferred
    /\ Len(lastRate.args.instructions) = 2
    /\ lastRate.args.version = "V3"
    /\ RateLimitedAssets(lastRate.args) = {}
    /\ HasRateLimit(lastRate.args.instructions[2].assets[1])
    /\ lastRate.n = 2
    /\ lastRate.pre["dot"].amount > 0

\* an asset without a rate limit before the one that decides
C36_WitnessSkipped ==
    /\ Deferred
    /\ RateLimitedAssets(lastRate.args) = {2}
    /\ lastRate.result # << >>

====
